---- MODULE Spec2Model ----
(***************************************************************************)
(* EnvForge blueprint graph compiler: the conversation engine              *)
(* (conversation_engine.py), the validator (validator.py), the dependency  *)
(* resolver (dependency_resolver.py), the renderer (yaml_renderer.py), the *)
(* contract registry (contracts.py) and the resource database              *)
(* (resource_db.py).                                                       *)
(*                                                                         *)
(* Representation of the Python data:                                      *)
(*  - a name (entity id, step name, field name, input name) is a string;   *)
(*  - a dotted string (a path, a value, an expression) is the sequence of  *)
(*    its dot-separated segments; the delimiters "${{" and "}}" of a       *)
(*    variable expression are segments of their own, so that               *)
(*    "${{env.config.x}}" is <<"${{", "env", "config", "x", "}}">>;        *)
(*  - None is the reserved value NoneV;                                    *)
(*  - a dict is the sequence of its [k, v] items in insertion order;       *)
(*  - entity.values, a nested dict, is the dict of its leaves, keyed by    *)
(*    the leaf's dotted path.                                              *)
(***************************************************************************)
EXTENDS Integers, Sequences, FiniteSets, TLC

(***************************************************************************)
(* Generic helpers                                                         *)
(***************************************************************************)
NoneV == <<"None">>

Truthy(v) == v # NoneV /\ v # <<>>

Range(s) == {s[i] : i \in 1..Len(s)}

RECURSIVE Flatten(_)
Flatten(ss) == IF ss = <<>> THEN <<>> ELSE Head(ss) \o Flatten(Tail(ss))

RECURSIVE SelectSeqBy(_, _)
SelectSeqBy(s, keep) ==
    IF s = <<>> THEN <<>>
    ELSE (IF Head(s) \in keep THEN <<Head(s)>> ELSE <<>>) \o SelectSeqBy(Tail(s), keep)

IsPrefix(p, q) == Len(p) <= Len(q) /\ SubSeq(q, 1, Len(p)) = p

IsProperPrefix(p, q) == Len(p) < Len(q) /\ SubSeq(q, 1, Len(p)) = p

DictKeys(d) == {d[i].k : i \in 1..Len(d)}

DictHas(d, key) == key \in DictKeys(d)

DictIndex(d, key) == CHOOSE i \in 1..Len(d) : d[i].k = key

DictGet(d, key) == d[DictIndex(d, key)].v

DictPut(d, key, val) ==
    IF DictHas(d, key)
    THEN [d EXCEPT ![DictIndex(d, key)] = [k |-> key, v |-> val]]
    ELSE Append(d, [k |-> key, v |-> val])

RECURSIVE Join(_)
Join(segs) ==
    IF segs = <<>> THEN ""
    ELSE IF Len(segs) = 1 THEN segs[1]
    ELSE segs[1] \o "." \o Join(Tail(segs))

Expr(scopePath) == <<"${{">> \o scopePath \o <<"}}">>

(***************************************************************************)
(* resource_db.py                                                          *)
(***************************************************************************)
IACM_TEMPLATES ==
    << [k |-> "TempNamespace",
        v |-> [inputs  |-> << [k |-> "name", v |-> [required |-> TRUE, hasDefault |-> FALSE]] >>,
               outputs |-> << "name" >>]] >>

CD_ENVIRONMENTS ==
    << [k |-> "mycluster",
        v |-> [infrastructures |->
                 << [infra_id |-> "ssemteamdelegate", required_bindings |-> << "namespace" >>] >>]] >>

PIPELINES ==
    << [k |-> "RunIaCM",          v |-> [backend_type |-> "HarnessIACM", inputs |-> <<>>]],
       [k |-> "DestroyIaCM",      v |-> [backend_type |-> "HarnessIACM", inputs |-> <<>>]],
       [k |-> "DeployService",    v |-> [backend_type |-> "Catalog",     inputs |-> <<>>]],
       [k |-> "UninstallService", v |-> [backend_type |-> "Catalog",     inputs |-> <<>>]] >>

KnownTemplate(template_id) == Len(template_id) = 1 /\ DictHas(IACM_TEMPLATES, template_id[1])

get_iacm_template(template_id) == DictGet(IACM_TEMPLATES, template_id[1])

KnownEnvironment(env_id) == Len(env_id) = 1 /\ DictHas(CD_ENVIRONMENTS, env_id[1])

get_cd_environment(env_id) == DictGet(CD_ENVIRONMENTS, env_id[1])

InfraMatches(env_id, infra_id) ==
    IF KnownEnvironment(env_id)
    THEN LET infras == get_cd_environment(env_id).infrastructures
         IN  {i \in 1..Len(infras) : <<infras[i].infra_id>> = infra_id}
    ELSE {}

KnownInfrastructure(env_id, infra_id) == InfraMatches(env_id, infra_id) # {}

get_infrastructure(env_id, infra_id) ==
    LET infras == get_cd_environment(env_id).infrastructures
        first  == CHOOSE i \in InfraMatches(env_id, infra_id) :
                      \A j \in InfraMatches(env_id, infra_id) : i <= j
    IN  infras[first]

\* The module-level dictionary PIPELINES as the running program holds it:
\* get_pipeline and _auto_fill_obvious_values read it at call time.
VARIABLE pipelines

KnownPipeline(pipeline_id) == Len(pipeline_id) = 1 /\ DictHas(pipelines, pipeline_id[1])

get_pipeline(pipeline_id) == DictGet(pipelines, pipeline_id[1])

AvailablePipelines(backend_type) ==
    SelectSeqBy([i \in 1..Len(pipelines) |-> pipelines[i].k],
                {pipelines[i].k : i \in {j \in 1..Len(pipelines) : pipelines[j].v.backend_type = backend_type}})

(***************************************************************************)
(* contracts.py                                                            *)
(***************************************************************************)
PipelineSourced == [source |-> "pipeline", allowed_sources |-> <<>>]

NoVariablesSpec == [source |-> "none", allowed_sources |-> <<>>]

HarnessIACM_CONTRACT ==
    [required_values |-> << <<"values", "workspace">> >>,
     steps |-> << [k |-> "create",  v |-> [required |-> TRUE,  fields |-> <<"template", "version">>, variables |-> NoVariablesSpec]],
                  [k |-> "apply",   v |-> [required |-> TRUE,  fields |-> <<"pipeline">>,            variables |-> PipelineSourced]],
                  [k |-> "destroy", v |-> [required |-> TRUE,  fields |-> <<"pipeline">>,            variables |-> PipelineSourced]],
                  [k |-> "delete",  v |-> [required |-> FALSE, fields |-> <<>>,                      variables |-> NoVariablesSpec]] >>]

Catalog_CONTRACT ==
    [required_values |-> << <<"values", "identifier">>,
                            <<"values", "environment", "identifier">>,
                            <<"values", "environment", "infra", "identifier">> >>,
     steps |-> << [k |-> "apply",   v |-> [required |-> TRUE, fields |-> <<"pipeline">>, variables |-> PipelineSourced]],
                  [k |-> "destroy", v |-> [required |-> TRUE, fields |-> <<"pipeline">>, variables |-> PipelineSourced]] >>]

BACKEND_CONTRACTS ==
    << [k |-> "HarnessIACM", v |-> HarnessIACM_CONTRACT],
       [k |-> "Catalog",     v |-> Catalog_CONTRACT] >>

HasContract(backend_type) == DictHas(BACKEND_CONTRACTS, backend_type)

get_backend_contract(backend_type) == DictGet(BACKEND_CONTRACTS, backend_type)

(***************************************************************************)
(* models.py: Entity, BlueprintGraph, MissingRequirement                   *)
(***************************************************************************)
NoVariables == [kind |-> "absent", list |-> <<>>, scalar |-> NoneV]

VariableList(vars) == [kind |-> "list", list |-> vars, scalar |-> NoneV]

VariableScalar(val) == [kind |-> "scalar", list |-> <<>>, scalar |-> val]

Step(fields, variables) == [fields |-> fields, variables |-> variables]

Entity(id, backend_type, inputs, values, steps, dependencies) ==
    [id |-> id, backend_type |-> backend_type, inputs |-> inputs,
     values |-> values, steps |-> steps, dependencies |-> dependencies]

BlueprintGraph(global_inputs, entities) ==
    [global_inputs |-> global_inputs, entities |-> entities]

MissingRequirement(entity_id, path, reason) ==
    [entity_id |-> entity_id, path |-> path, reason |-> reason]

EntityIds(graph) == {graph.entities[i].id : i \in 1..Len(graph.entities)}

EntityIndex(graph, entity_id) ==
    CHOOSE i \in 1..Len(graph.entities) : graph.entities[i].id = entity_id

EntityOf(graph, entity_id) == graph.entities[EntityIndex(graph, entity_id)]

StepHasField(step, field) ==
    IF field = "variables" THEN step.variables.kind # "absent"
    ELSE DictHas(step.fields, field)

(***************************************************************************)
(* _get_nested_value / _set_nested_value on the leaves of a nested dict    *)
(***************************************************************************)
DictMarker == <<"{...}">>

_get_nested_value(data, path) ==
    IF DictHas(data, path) THEN DictGet(data, path)
    ELSE IF \E key \in DictKeys(data) : IsProperPrefix(path, key) THEN DictMarker
    ELSE NoneV

_set_nested_value(data, path, value) ==
    IF DictHas(data, path) THEN DictPut(data, path, value)
    ELSE LET kept == SelectSeqBy(data, {item \in Range(data) : ~IsProperPrefix(path, item.k)})
         IN  Append(kept, [k |-> path, v |-> value])

(***************************************************************************)
(* validator.py                                                            *)
(***************************************************************************)
StepField(step, field) ==
    IF DictHas(step.fields, field) THEN DictGet(step.fields, field) ELSE NoneV

VariableNamed(step, input_name) ==
    /\ step.variables.kind = "list"
    /\ \E i \in 1..Len(step.variables.list) : step.variables.list[i].name = input_name

_validate_backend_contract(entity) ==
    IF ~HasContract(entity.backend_type)
    THEN << MissingRequirement(entity.id, <<"backend_type">>, <<"Unknown backend type">>) >>
    ELSE
      LET contract == get_backend_contract(entity.backend_type)
          valueFindings ==
            Flatten([i \in 1..Len(contract.required_values) |->
              LET required_value_path == contract.required_values[i]
                  path_in_values ==
                    IF Len(required_value_path) > 1 /\ required_value_path[1] = "values"
                    THEN Tail(required_value_path) ELSE required_value_path
              IN  IF ~Truthy(_get_nested_value(entity.values, path_in_values))
                  THEN << MissingRequirement(entity.id, required_value_path, <<"Required value is missing">>) >>
                  ELSE <<>>])
          stepFindings ==
            Flatten([i \in 1..Len(contract.steps) |->
              LET step_name     == contract.steps[i].k
                  step_contract == contract.steps[i].v
              IN  IF ~step_contract.required THEN <<>>
                  ELSE IF ~DictHas(entity.steps, step_name)
                  THEN << MissingRequirement(entity.id, <<"steps", step_name>>, <<"Required step is missing">>) >>
                  ELSE LET step_data == DictGet(entity.steps, step_name)
                       IN  Flatten([j \in 1..Len(step_contract.fields) |->
                             IF ~StepHasField(step_data, step_contract.fields[j])
                             THEN << MissingRequirement(entity.id,
                                        <<"steps", step_name, step_contract.fields[j]>>,
                                        <<"Required field in step is missing">>) >>
                             ELSE <<>>])])
      IN  valueFindings \o stepFindings

_validate_pipelines(entity) ==
    Flatten([i \in 1..Len(entity.steps) |->
      LET step_name == entity.steps[i].k
          step_data == entity.steps[i].v
      IN  IF ~DictHas(step_data.fields, "pipeline") THEN <<>>
          ELSE LET pipeline_id == DictGet(step_data.fields, "pipeline")
               IN  IF ~KnownPipeline(pipeline_id)
                   THEN << MissingRequirement(entity.id, <<"steps", step_name, "pipeline">>,
                                              <<"Pipeline does not exist">>) >>
                   ELSE LET inputs == get_pipeline(pipeline_id).inputs
                        IN  Flatten([j \in 1..Len(inputs) |->
                              IF /\ inputs[j].v.required
                                 /\ ~VariableNamed(step_data, inputs[j].k)
                                 /\ ~inputs[j].v.hasDefault
                              THEN << MissingRequirement(entity.id,
                                         <<"steps", step_name, "variables", inputs[j].k>>,
                                         <<"Pipeline requires input">>) >>
                              ELSE <<>>])])

\* re.findall(r'\$\{\{(.+?)\}\}', value): the non-overlapping, shortest,
\* non-empty bodies between "${{" and "}}", left to right.
RECURSIVE FindExpressions(_)
FindExpressions(s) ==
    LET opens == {i \in 1..Len(s) : s[i] = "${{" /\ \E j \in (i + 2)..Len(s) : s[j] = "}}"}
    IN  IF opens = {} THEN <<>>
        ELSE LET i == CHOOSE a \in opens : \A b \in opens : a <= b
                 closes == {j \in (i + 2)..Len(s) : s[j] = "}}"}
                 j == CHOOSE a \in closes : \A b \in closes : a <= b
             IN  <<SubSeq(s, i + 1, j - 1)>> \o FindExpressions(SubSeq(s, j + 1, Len(s)))

StartsWithScope(expr, scope) == Len(expr) > Len(scope) /\ SubSeq(expr, 1, Len(scope)) = scope

\* _validate_single_expression without the test of the declared dependencies.
_validate_single_expression_present(entity, graph, expr, allowed_sources, step_name, var_name) ==
    IF StartsWithScope(expr, <<"env", "config">>) THEN
        IF "env.config" \notin Range(allowed_sources)
        THEN << MissingRequirement(entity.id, <<"steps", step_name, "variables">>,
                                   <<"env.config is not allowed for this step", var_name>>) >>
        ELSE IF Join(SubSeq(expr, 3, Len(expr))) \notin DictKeys(graph.global_inputs)
        THEN << MissingRequirement(entity.id, expr, <<"Global input does not exist", var_name>>) >>
        ELSE <<>>
    ELSE IF StartsWithScope(expr, <<"entity", "config">>) THEN
        IF "entity.config" \notin Range(allowed_sources)
        THEN << MissingRequirement(entity.id, <<"steps", step_name, "variables">>,
                                   <<"entity.config is not allowed for this step", var_name>>) >>
        ELSE IF Join(SubSeq(expr, 3, Len(expr))) \notin DictKeys(entity.inputs)
        THEN << MissingRequirement(entity.id, expr, <<"Entity input does not exist", var_name>>) >>
        ELSE <<>>
    ELSE IF StartsWithScope(expr, <<"dependencies">>) THEN
        IF "dependencies" \notin Range(allowed_sources)
        THEN << MissingRequirement(entity.id, <<"steps", step_name, "variables">>,
                                   <<"dependencies is not allowed for this step", var_name>>) >>
        ELSE IF Len(expr) >= 4 /\ expr[3] = "output" THEN
            LET dep_id       == expr[2]
                output_field == expr[4]
            IN  IF dep_id \notin EntityIds(graph)
                THEN << MissingRequirement(entity.id, expr, <<"Dependency entity does not exist in the graph">>) >>
                ELSE LET dep_entity == EntityOf(graph, dep_id)
                     IN  IF /\ dep_entity.backend_type = "HarnessIACM"
                            /\ DictHas(dep_entity.steps, "create")
                            /\ Truthy(StepField(DictGet(dep_entity.steps, "create"), "template"))
                            /\ KnownTemplate(StepField(DictGet(dep_entity.steps, "create"), "template"))
                            /\ output_field \notin
                                 Range(get_iacm_template(
                                   StepField(DictGet(dep_entity.steps, "create"), "template")).outputs)
                         THEN << MissingRequirement(entity.id, expr, <<"Output field does not exist", dep_id>>) >>
                         ELSE <<>>
        ELSE <<>>
    ELSE <<>>

_validate_single_expression(entity, graph, expr, allowed_sources, step_name, var_name) ==
    IF StartsWithScope(expr, <<"env", "config">>) THEN
        IF "env.config" \notin Range(allowed_sources)
        THEN << MissingRequirement(entity.id, <<"steps", step_name, "variables">>,
                                   <<"env.config is not allowed for this step", var_name>>) >>
        ELSE IF Join(SubSeq(expr, 3, Len(expr))) \notin DictKeys(graph.global_inputs)
        THEN << MissingRequirement(entity.id, expr, <<"Global input does not exist", var_name>>) >>
        ELSE <<>>
    ELSE IF StartsWithScope(expr, <<"entity", "config">>) THEN
        IF "entity.config" \notin Range(allowed_sources)
        THEN << MissingRequirement(entity.id, <<"steps", step_name, "variables">>,
                                   <<"entity.config is not allowed for this step", var_name>>) >>
        ELSE IF Join(SubSeq(expr, 3, Len(expr))) \notin DictKeys(entity.inputs)
        THEN << MissingRequirement(entity.id, expr, <<"Entity input does not exist", var_name>>) >>
        ELSE <<>>
    ELSE IF StartsWithScope(expr, <<"dependencies">>) THEN
        IF "dependencies" \notin Range(allowed_sources)
        THEN << MissingRequirement(entity.id, <<"steps", step_name, "variables">>,
                                   <<"dependencies is not allowed for this step", var_name>>) >>
        ELSE IF Len(expr) >= 4 /\ expr[3] = "output" THEN
            LET dep_id       == expr[2]
                output_field == expr[4]
            IN  IF dep_id \notin Range(entity.dependencies)
                THEN << MissingRequirement(entity.id, expr, <<"Dependency is not declared", var_name>>) >>
                ELSE IF dep_id \notin EntityIds(graph)
                THEN << MissingRequirement(entity.id, expr, <<"Dependency entity does not exist in the graph">>) >>
                ELSE LET dep_entity == EntityOf(graph, dep_id)
                     IN  IF /\ dep_entity.backend_type = "HarnessIACM"
                            /\ DictHas(dep_entity.steps, "create")
                            /\ Truthy(StepField(DictGet(dep_entity.steps, "create"), "template"))
                            /\ KnownTemplate(StepField(DictGet(dep_entity.steps, "create"), "template"))
                            /\ output_field \notin
                                 Range(get_iacm_template(
                                   StepField(DictGet(dep_entity.steps, "create"), "template")).outputs)
                         THEN << MissingRequirement(entity.id, expr, <<"Output field does not exist", dep_id>>) >>
                         ELSE <<>>
        ELSE <<>>
    ELSE <<>>

AllowedSources(contract, step_name) ==
    LET variables_spec ==
          IF DictHas(contract.steps, step_name)
          THEN DictGet(contract.steps, step_name).variables
          ELSE NoVariablesSpec
    IN  IF variables_spec.source = "pipeline"
        THEN <<"env.config", "entity.config", "dependencies">>
        ELSE variables_spec.allowed_sources

_validate_variable_expressions(entity, graph) ==
    IF ~HasContract(entity.backend_type) THEN <<>>
    ELSE
      LET contract == get_backend_contract(entity.backend_type)
      IN  Flatten([i \in 1..Len(entity.steps) |->
            LET step_name == entity.steps[i].k
                step_data == entity.steps[i].v
            IN  IF step_data.variables.kind # "list" THEN <<>>
                ELSE LET variables == step_data.variables.list
                     IN  Flatten([j \in 1..Len(variables) |->
                           LET expressions == FindExpressions(variables[j].value)
                           IN  Flatten([n \in 1..Len(expressions) |->
                                 _validate_single_expression(entity, graph, expressions[n],
                                     AllowedSources(contract, step_name), step_name,
                                     variables[j].name)])])])

_validate_iacm_entity(entity) ==
    LET inputFindings ==
          IF entity.inputs # <<>>
          THEN << MissingRequirement(entity.id, <<"inputs">>,
                                     <<"IaCM entities cannot have entity-level inputs">>) >>
          ELSE <<>>
        createFindings ==
          IF ~DictHas(entity.steps, "create") THEN <<>>
          ELSE LET template_id == StepField(DictGet(entity.steps, "create"), "template")
               IN  IF ~Truthy(template_id)
                   THEN << MissingRequirement(entity.id, <<"steps", "create", "template">>,
                                              <<"Template ID is required for create step">>) >>
                   ELSE IF ~KnownTemplate(template_id)
                   THEN << MissingRequirement(entity.id, <<"steps", "create", "template">>,
                                              <<"Template does not exist">>) >>
                   ELSE IF ~DictHas(entity.steps, "apply") THEN <<>>
                   ELSE LET inputs == get_iacm_template(template_id).inputs
                        IN  Flatten([j \in 1..Len(inputs) |->
                              IF /\ inputs[j].v.required
                                 /\ ~\E step_name \in {"apply", "destroy"} :
                                        /\ DictHas(entity.steps, step_name)
                                        /\ VariableNamed(DictGet(entity.steps, step_name), inputs[j].k)
                              THEN << MissingRequirement(entity.id,
                                         <<"steps", "apply", "variables", inputs[j].k>>,
                                         <<"Required template input must be wired as pipeline variable">>) >>
                              ELSE <<>>])
    IN  inputFindings \o createFindings

_validate_catalog_entity(entity) ==
    LET env_id   == _get_nested_value(entity.values, <<"environment", "identifier">>)
        infra_id == _get_nested_value(entity.values, <<"environment", "infra", "identifier">>)
    IN  IF ~Truthy(env_id) THEN <<>>
        ELSE IF ~KnownEnvironment(env_id)
        THEN << MissingRequirement(entity.id, <<"values", "environment", "identifier">>,
                                   <<"Environment does not exist">>) >>
        ELSE IF ~Truthy(infra_id) THEN <<>>
        ELSE IF ~KnownInfrastructure(env_id, infra_id)
        THEN << MissingRequirement(entity.id, <<"values", "environment", "infra", "identifier">>,
                                   <<"Infrastructure does not exist in environment">>) >>
        ELSE <<>>

\* _validate_resource_specific without the HarnessIACM branch.
_validate_resource_specific_catalogOnly(entity) ==
    IF entity.backend_type = "Catalog" THEN _validate_catalog_entity(entity)
    ELSE <<>>

_validate_resource_specific(entity) ==
    IF entity.backend_type = "HarnessIACM" THEN _validate_iacm_entity(entity)
    ELSE IF entity.backend_type = "Catalog" THEN _validate_catalog_entity(entity)
    ELSE <<>>

validate_graph(graph) ==
    Flatten([i \in 1..Len(graph.entities) |->
        _validate_backend_contract(graph.entities[i])
        \o _validate_pipelines(graph.entities[i])
        \o _validate_variable_expressions(graph.entities[i], graph)
        \o _validate_resource_specific(graph.entities[i])])

(***************************************************************************)
(* dependency_resolver.py                                                  *)
(***************************************************************************)
RECURSIVE FindCompatibleFrom(_, _, _, _)
FindCompatibleFrom(entity, graph, required_binding, n) ==
    IF n > Len(entity.dependencies) THEN NoneV
    ELSE
      LET dep_id == entity.dependencies[n]
          next   == FindCompatibleFrom(entity, graph, required_binding, n + 1)
      IN  IF dep_id \notin EntityIds(graph) THEN next
          ELSE LET dep_entity == EntityOf(graph, dep_id)
               IN  IF dep_entity.backend_type # "HarnessIACM" THEN next
                   ELSE IF ~DictHas(dep_entity.steps, "create") THEN next
                   ELSE LET template_id == StepField(DictGet(dep_entity.steps, "create"), "template")
                        IN  IF ~Truthy(template_id) THEN next
                            ELSE IF ~KnownTemplate(template_id) THEN next
                            ELSE LET outputs == Range(get_iacm_template(template_id).outputs)
                                 IN  IF required_binding = "namespace" /\ "name" \in outputs
                                     THEN Expr(<<"dependencies", dep_id, "output", "name">>)
                                     ELSE IF required_binding = "namespace" /\ "namespace" \in outputs
                                     THEN Expr(<<"dependencies", dep_id, "output", "namespace">>)
                                     ELSE IF required_binding \in outputs
                                     THEN Expr(<<"dependencies", dep_id, "output", required_binding>>)
                                     ELSE next

\* _find_compatible_output where a later compatible dependency replaces an earlier one.
_find_compatible_output_last(entity, graph, required_binding) ==
    FindCompatibleFrom(
        [entity EXCEPT !.dependencies = [i \in 1..Len(@) |-> @[Len(@) + 1 - i]]],
        graph, required_binding, 1)

_find_compatible_output(entity, graph, required_binding) ==
    FindCompatibleFrom(entity, graph, required_binding, 1)

RECURSIVE WireBindingsFrom(_, _, _, _)
WireBindingsFrom(entity, graph, required_bindings, n) ==
    IF n > Len(required_bindings) THEN entity
    ELSE
      LET binding_path == <<"environment", "infra", required_bindings[n]>>
          wired_expr   == _find_compatible_output(entity, graph, required_bindings[n])
          wired ==
            IF Truthy(_get_nested_value(entity.values, binding_path)) THEN entity
            ELSE IF Truthy(wired_expr)
            THEN [entity EXCEPT !.values = _set_nested_value(entity.values, binding_path, wired_expr)]
            ELSE entity
      IN  WireBindingsFrom(wired, graph, required_bindings, n + 1)

WireEntity(entity, graph) ==
    LET env_id   == _get_nested_value(entity.values, <<"environment", "identifier">>)
        infra_id == _get_nested_value(entity.values, <<"environment", "infra", "identifier">>)
    IN  IF entity.backend_type # "Catalog" THEN entity
        ELSE IF ~Truthy(env_id) \/ ~Truthy(infra_id) THEN entity
        ELSE IF ~KnownInfrastructure(env_id, infra_id) THEN entity
        ELSE WireBindingsFrom(entity, graph,
                              get_infrastructure(env_id, infra_id).required_bindings, 1)

RECURSIVE AutoWireFrom(_, _)
AutoWireFrom(graph, n) ==
    IF n > Len(graph.entities) THEN graph
    ELSE AutoWireFrom([graph EXCEPT !.entities[n] = WireEntity(graph.entities[n], graph)], n + 1)

\* auto_wire_dependencies returning from inside the loop, after the first entity it wires.
auto_wire_dependencies_first(graph) ==
    LET wirable == {n \in 1..Len(graph.entities) :
                       WireEntity(graph.entities[n], graph) # graph.entities[n]}
    IN  IF wirable = {} THEN graph
        ELSE [graph EXCEPT !.entities[CHOOSE n \in wirable : \A m \in wirable : n <= m] =
                WireEntity(@, graph)]

auto_wire_dependencies(graph) == AutoWireFrom(graph, 1)

(***************************************************************************)
(* yaml_renderer.py: the document handed to yaml.dump                      *)
(***************************************************************************)
IsExpressionString(value) == Len(value) >= 1 /\ value[1] = "${{"

_infer_type(value) == "string"

_render_global_inputs(graph) ==
    [i \in 1..Len(graph.global_inputs) |->
        [name       |-> graph.global_inputs[i].k,
         type       |-> IF graph.global_inputs[i].v # NoneV
                        THEN _infer_type(graph.global_inputs[i].v) ELSE "string",
         hasDefault |-> graph.global_inputs[i].v # NoneV,
         default    |-> graph.global_inputs[i].v]]

_render_interface_inputs(entity) ==
    [i \in 1..Len(entity.inputs) |->
        [name       |-> entity.inputs[i].k,
         type       |-> IF entity.inputs[i].v # NoneV THEN _infer_type(entity.inputs[i].v) ELSE "string",
         hasDefault |-> entity.inputs[i].v # NoneV /\ ~IsExpressionString(entity.inputs[i].v),
         default    |-> entity.inputs[i].v]]

_render_variables(variables) ==
    [i \in 1..Len(variables) |-> [name |-> variables[i].name, value |-> variables[i].value]]

\* Iterating a variables value that is not a list of records fails on
\* var["name"]; an empty value is iterated zero times.
RenderVariablesRaises(variables) ==
    variables.kind = "scalar" /\ variables.scalar # <<>>

_render_steps(steps) ==
    [i \in 1..Len(steps) |->
        [k |-> steps[i].k,
         v |-> [fields       |-> steps[i].v.fields,
                hasVariables |-> steps[i].v.variables.kind # "absent",
                variables    |-> _render_variables(steps[i].v.variables.list)]]]

_render_backend(entity) ==
    [hasValues |-> entity.values # <<>>,
     values    |-> entity.values,
     hasSteps  |-> entity.steps # <<>>,
     steps     |-> _render_steps(entity.steps)]

\* _render_entities without the test of the backend type.
_render_entities_any(graph) ==
    [i \in 1..Len(graph.entities) |->
        LET entity == graph.entities[i]
        IN  [id              |-> entity.id,
             type            |-> entity.backend_type,
             backend         |-> _render_backend(entity),
             hasInputs       |-> entity.inputs # <<>>,
             inputs          |-> IF entity.inputs # <<>>
                                 THEN _render_interface_inputs(entity) ELSE <<>>,
             hasDependencies |-> entity.dependencies # <<>>,
             dependencies    |-> [j \in 1..Len(entity.dependencies) |->
                                     [identifier |-> entity.dependencies[j]]]]]

_render_entities(graph) ==
    [i \in 1..Len(graph.entities) |->
        LET entity == graph.entities[i]
        IN  [id              |-> entity.id,
             type            |-> entity.backend_type,
             backend         |-> _render_backend(entity),
             hasInputs       |-> entity.inputs # <<>> /\ entity.backend_type = "Catalog",
             inputs          |-> IF entity.inputs # <<>> /\ entity.backend_type = "Catalog"
                                 THEN _render_interface_inputs(entity) ELSE <<>>,
             hasDependencies |-> entity.dependencies # <<>>,
             dependencies    |-> [j \in 1..Len(entity.dependencies) |->
                                     [identifier |-> entity.dependencies[j]]]]]

NoDocument == [rendered |-> FALSE, inputs |-> <<>>, entities |-> <<>>]

render_yaml(graph) ==
    [rendered |-> TRUE,
     inputs   |-> _render_global_inputs(graph),
     entities |-> _render_entities(graph)]

RenderRaises(graph) ==
    \E i \in 1..Len(graph.entities) :
        \E j \in 1..Len(graph.entities[i].steps) :
            RenderVariablesRaises(graph.entities[i].steps[j].v.variables)

(***************************************************************************)
(* conversation_engine.py: _apply_update                                   *)
(*                                                                         *)
(* An update is [entity_id, path, kind, value, step, classification]:      *)
(* kind "scalar" carries a string or None in value, kind "dict" a step     *)
(* dict in step, kind "list" the empty list.  The result is the graph and  *)
(* whether the call raised; a raising call keeps what it had written.      *)
(***************************************************************************)
Update(entity_id, path, kind, value, step, classification) ==
    [entity_id |-> entity_id, path |-> path, kind |-> kind, value |-> value,
     step |-> step, classification |-> classification]

EmptyStep == Step(<<>>, NoVariables)

ScalarUpdate(entity_id, path, value, classification) ==
    Update(entity_id, path, "scalar", value, EmptyStep, classification)

DictUpdate(entity_id, path, step, classification) ==
    Update(entity_id, path, "dict", DictMarker, step, classification)

ListUpdate(entity_id, path, classification) ==
    Update(entity_id, path, "list", <<>>, EmptyStep, classification)

PathStartsWith(path, prefix) == Len(path) > Len(prefix) /\ SubSeq(path, 1, Len(prefix)) = prefix

PathAfter(path, prefix) == SubSeq(path, Len(prefix) + 1, Len(path))

\* Upsert of one lifecycle step's variable in the HarnessIACM branch.
UpsertVariable(variables, input_name, expression) ==
    LET hits == {i \in 1..Len(variables) : variables[i].name = input_name}
    IN  IF hits = {}
        THEN Append(variables, [name |-> input_name, value |-> expression])
        ELSE LET first == CHOOSE i \in hits : \A j \in hits : i <= j
             IN  [variables EXCEPT ![first].value = expression]

\* LifecycleSteps without the destroy step.
LifecycleSteps_applyOnly == <<"apply">>

LifecycleSteps == <<"apply", "destroy">>

RECURSIVE WireLifecycleFrom(_, _, _, _)
WireLifecycleFrom(entity, input_name, expression, n) ==
    IF n > Len(LifecycleSteps) THEN [entity |-> entity, raised |-> FALSE]
    ELSE
      LET lifecycle_step == LifecycleSteps[n]
      IN  IF ~DictHas(entity.steps, lifecycle_step)
          THEN WireLifecycleFrom(entity, input_name, expression, n + 1)
          ELSE
            LET step == DictGet(entity.steps, lifecycle_step)
            IN  IF step.variables.kind = "scalar"
                THEN [entity |-> entity, raised |-> TRUE]
                ELSE
                  LET wired == Step(step.fields,
                                    VariableList(UpsertVariable(step.variables.list,
                                                                input_name, expression)))
                  IN  WireLifecycleFrom(
                        [entity EXCEPT !.steps = DictPut(entity.steps, lifecycle_step, wired)],
                        input_name, expression, n + 1)

SetStepField(entity, step_name, field_name, update) ==
    LET step == IF DictHas(entity.steps, step_name)
                THEN DictGet(entity.steps, step_name) ELSE EmptyStep
        written ==
          IF field_name = "variables"
          THEN Step(step.fields,
                    IF update.kind = "list" THEN VariableList(<<>>)
                    ELSE VariableScalar(update.value))
          ELSE Step(DictPut(step.fields, field_name, update.value), step.variables)
    IN  [entity EXCEPT !.steps = DictPut(entity.steps, step_name, written)]

Outcome(global_inputs, entity, raised) ==
    [global_inputs |-> global_inputs, entity |-> entity, raised |-> raised]

Wired(global_inputs, wired) == Outcome(global_inputs, wired.entity, wired.raised)

\* The HarnessIACM branch for steps.<step>.variables.<input_name>.
WireTemplateInput(graph, entity, update, input_name, blueprint_input_name) ==
    Wired(IF DictHas(graph.global_inputs, blueprint_input_name)
          THEN graph.global_inputs
          ELSE DictPut(graph.global_inputs, blueprint_input_name,
                       IF update.classification = "literal" /\ update.value # NoneV
                       THEN update.value ELSE NoneV),
          WireLifecycleFrom(entity, input_name,
                            Expr(<<"env", "config", blueprint_input_name>>), 1))

ApplyToSteps(graph, entity, update) ==
    IF Len(update.path) = 4 /\ update.path[3] = "variables" /\ entity.backend_type = "HarnessIACM"
    THEN WireTemplateInput(graph, entity, update, update.path[4],
                           IF update.classification = "blueprint_input"
                           THEN Join(update.value) ELSE update.path[4])
    ELSE IF Len(update.path) = 2
    THEN Outcome(graph.global_inputs,
                 IF update.kind = "dict"
                 THEN [entity EXCEPT !.steps = DictPut(entity.steps, update.path[2], update.step)]
                 ELSE IF update.kind = "scalar" /\ update.value # NoneV
                 THEN [entity EXCEPT !.steps =
                         DictPut(entity.steps, update.path[2],
                                 Step(<< [k |-> "pipeline", v |-> update.value] >>, VariableList(<<>>)))]
                 ELSE entity,
                 FALSE)
    ELSE Outcome(graph.global_inputs,
                 SetStepField(entity, update.path[2], update.path[3], update), FALSE)

\* The part of _apply_update after the classification has been handled.
ApplyByPath(graph, entity, update) ==
    IF PathStartsWith(update.path, <<"env", "config">>)
    THEN Outcome(DictPut(graph.global_inputs, Join(PathAfter(update.path, <<"env", "config">>)),
                         IF update.classification = "literal" \/ update.value # NoneV
                         THEN update.value ELSE NoneV),
                 entity, FALSE)
    ELSE IF PathStartsWith(update.path, <<"config">>)
    THEN Outcome(graph.global_inputs,
                 [entity EXCEPT !.inputs =
                    DictPut(entity.inputs, Join(PathAfter(update.path, <<"config">>)), update.value)],
                 FALSE)
    ELSE IF PathStartsWith(update.path, <<"values">>)
    THEN Outcome(graph.global_inputs,
                 [entity EXCEPT !.values =
                    _set_nested_value(entity.values, PathAfter(update.path, <<"values">>), update.value)],
                 FALSE)
    ELSE IF PathStartsWith(update.path, <<"steps">>)
    THEN ApplyToSteps(graph, entity, update)
    ELSE Outcome(graph.global_inputs, entity, FALSE)

\* The variable_reference and blueprint_input branches, which store an
\* expression in values or config and return; any other path goes on.
StoreExpression(global_inputs, entity, path, expression) ==
    IF PathStartsWith(path, <<"values">>)
    THEN Outcome(global_inputs,
                 [entity EXCEPT !.values =
                    _set_nested_value(entity.values, PathAfter(path, <<"values">>), expression)],
                 FALSE)
    ELSE Outcome(global_inputs,
                 [entity EXCEPT !.inputs =
                    DictPut(entity.inputs, Join(PathAfter(path, <<"config">>)), expression)],
                 FALSE)

StoresExpression(path) ==
    PathStartsWith(path, <<"values">>) \/ PathStartsWith(path, <<"config">>)

RegisterInput(global_inputs, input_name) ==
    IF DictHas(global_inputs, input_name) THEN global_inputs
    ELSE DictPut(global_inputs, input_name, NoneV)

ApplyClassified(graph, entity, update) ==
    IF update.classification = "variable_reference"
    THEN IF StoresExpression(update.path)
         THEN StoreExpression(graph.global_inputs, entity, update.path, Expr(update.value))
         ELSE ApplyByPath(graph, entity,
                          [update EXCEPT !.value = Expr(update.value), !.classification = "literal"])
    ELSE IF update.classification = "blueprint_input"
    THEN IF StoresExpression(update.path)
         THEN StoreExpression(RegisterInput(graph.global_inputs, Join(update.value)), entity,
                              update.path, Expr(<<"env", "config", Join(update.value)>>))
         ELSE ApplyByPath([graph EXCEPT !.global_inputs = RegisterInput(@, Join(update.value))],
                          entity, update)
    ELSE ApplyByPath(graph, entity, update)

Written(graph, n, result) ==
    [graph  |-> [global_inputs |-> result.global_inputs,
                 entities      |-> [graph.entities EXCEPT ![n] = result.entity]],
     raised |-> result.raised]

_apply_update(graph, update) ==
    IF update.entity_id \notin EntityIds(graph)
    THEN [graph |-> graph, raised |-> FALSE]
    ELSE Written(graph, EntityIndex(graph, update.entity_id),
                 ApplyClassified(graph, EntityOf(graph, update.entity_id), update))

\* A sequence of updates applied in order, stopping at the first that raises;
\* handed is the number of updates handed to _apply_update.
RECURSIVE ApplyUpdatesFrom(_, _, _)
AfterUpdate(result, updates, n) ==
    IF result.raised
    THEN [graph |-> result.graph, raised |-> TRUE, handed |-> n]
    ELSE ApplyUpdatesFrom(result.graph, updates, n + 1)

ApplyUpdatesFrom(graph, updates, n) ==
    IF n > Len(updates) THEN [graph |-> graph, raised |-> FALSE, handed |-> Len(updates)]
    ELSE AfterUpdate(_apply_update(graph, updates[n]), updates, n)

(***************************************************************************)
(* conversation_engine.py: the engine object.  The handlers are operators  *)
(* from the engine record self to the engine record after the call; the    *)
(* fields response, raised, trace, applied, validated and added describe   *)
(* the call itself: what it returned, whether it raised, the values        *)
(* assigned to self.state in order, the updates handed to _apply_update,   *)
(* whether validate_graph ran, and whether added_entity_names is non-empty.*)
(***************************************************************************)
Response(kind, entity_id, requirements, acknowledged) ==
    [kind |-> kind, entity_id |-> entity_id, requirements |-> requirements,
     acknowledged |-> acknowledged]

NoResponse == Response("none", "", <<>>, FALSE)

formulate_question(missing_req) ==
    Response("question", missing_req.entity_id, <<missing_req>>, FALSE)

formulate_compound_question(entity_id, requirements) ==
    Response("compound_question", entity_id, requirements, FALSE)

SetState(self, value) ==
    [self EXCEPT !.state = value, !.trace = Append(@, value)]

\* _auto_fill_obvious_values
FillStep(entity, step_name, pipeline_id) ==
    IF ~DictHas(entity.steps, step_name)
    THEN [entity EXCEPT !.steps =
            DictPut(entity.steps, step_name,
                    Step(<< [k |-> "pipeline", v |-> <<pipeline_id>>] >>, VariableList(<<>>)))]
    ELSE LET step == DictGet(entity.steps, step_name)
         IN  IF DictHas(step.fields, "pipeline") THEN entity
             ELSE [entity EXCEPT !.steps =
                     DictPut(entity.steps, step_name,
                             Step(DictPut(step.fields, "pipeline", <<pipeline_id>>),
                                  IF step.variables.kind = "absent"
                                  THEN VariableList(<<>>) ELSE step.variables))]

\* AutoFillEntity taking the first of several pipelines.
AutoFillEntity_first(entity) ==
    LET available_pipelines == AvailablePipelines(entity.backend_type)
    IN  IF Len(available_pipelines) < 1 THEN entity
        ELSE FillStep(FillStep(entity, "apply", available_pipelines[1]),
                      "destroy", available_pipelines[1])

AutoFillEntity(entity) ==
    LET available_pipelines == AvailablePipelines(entity.backend_type)
    IN  IF Len(available_pipelines) # 1 THEN entity
        ELSE FillStep(FillStep(entity, "apply", available_pipelines[1]),
                      "destroy", available_pipelines[1])

_auto_fill_obvious_values(graph) ==
    [graph EXCEPT !.entities = [i \in 1..Len(graph.entities) |-> AutoFillEntity(graph.entities[i])]]

\* _group_missing_requirements, first group: the findings of the entity of
\* the first finding, in order.
FirstGroup(requirements) ==
    SelectSeqBy(requirements,
                {r \in Range(requirements) : r.entity_id = requirements[1].entity_id})

AskGroup(self, group) ==
    [self EXCEPT !.current_question_index = 0,
                 !.current_entity_group = group,
                 !.response = formulate_compound_question(group[1].entity_id, group)]

\* The two branches of _validate_and_continue after validate_graph.
Conclude(self, findings) ==
    IF findings # <<>>
    THEN AskGroup(SetState([self EXCEPT !.missing_requirements = findings], "NEEDS_INPUT"),
                  FirstGroup(findings))
    ELSE IF RenderRaises(self.graph)
    THEN [SetState([self EXCEPT !.missing_requirements = findings], "GRAPH_COMPLETE")
            EXCEPT !.raised = TRUE]
    ELSE [SetState(SetState([self EXCEPT !.missing_requirements = findings], "GRAPH_COMPLETE"),
                   "YAML_RENDERED")
            EXCEPT !.yaml_output = render_yaml(self.graph),
                   !.response = Response("complete", "", <<>>, FALSE)]

Validate(self) == Conclude([self EXCEPT !.validated = TRUE], validate_graph(self.graph))

\* _validate_and_continue without the call of _auto_fill_obvious_values.
_validate_and_continue_unfilled(self) ==
    Validate([SetState(self, "VALIDATION") EXCEPT !.graph = auto_wire_dependencies(@)])

_validate_and_continue(self) ==
    Validate([SetState(self, "VALIDATION") EXCEPT
                !.graph = auto_wire_dependencies(_auto_fill_obvious_values(@))])

(***************************************************************************)
(* Entity creation: _generate_entity_id, _build_graph_from_intent,         *)
(* _handle_entity_expansion.  An entity_data is [backend_type, template,   *)
(* component, dependency_names, inputs]; Absent stands for a missing key.  *)
(***************************************************************************)
Absent == "<absent>"

EntityData(backend_type, template, component, dependency_names, inputs) ==
    [backend_type |-> backend_type, template |-> template, component |-> component,
     dependency_names |-> dependency_names, inputs |-> inputs]

\* base_name.lower().replace("-", "_").replace(" ", "_") on the names in use
Sanitize(base_name) ==
    CASE base_name = "TempNamespace" -> "tempnamespace"
      [] base_name = "OtherTemplate" -> "othertemplate"
      [] base_name = "my-service"    -> "my_service"
      [] OTHER                       -> base_name

BaseName(entity_data) ==
    IF entity_data.backend_type = "Catalog"
    THEN (IF entity_data.component # Absent THEN entity_data.component ELSE "service")
    ELSE IF entity_data.backend_type = "HarnessIACM"
    THEN (IF entity_data.template # Absent THEN entity_data.template ELSE "iacm")
    ELSE "entity"

\* _generate_entity_id without the counter in the id.
_generate_entity_id_unnumbered(entity_data, entity_counter) ==
    Sanitize(BaseName(entity_data)) \o "_e1"

_generate_entity_id(entity_data, entity_counter) ==
    Sanitize(BaseName(entity_data)) \o "_e" \o ToString(entity_counter + 1)

ResolveDependencies(component_to_entity_id, dependency_names) ==
    [i \in 1..Len(dependency_names) |->
        IF DictHas(component_to_entity_id, dependency_names[i])
        THEN DictGet(component_to_entity_id, dependency_names[i])
        ELSE dependency_names[i]]

\* The entity both builders create, before it is stored.
NewEntity(entity_data, entity_id, dependencies, inputs) ==
    LET bare == Entity(entity_id, entity_data.backend_type, inputs, <<>>, <<>>, dependencies)
    IN  IF entity_data.backend_type = "HarnessIACM" /\ entity_data.template # Absent
        THEN [bare EXCEPT !.steps =
                << [k |-> "create",
                    v |-> Step(<< [k |-> "template", v |-> <<entity_data.template>>],
                                  [k |-> "version",  v |-> <<"v1">>] >>, NoVariables)] >>]
        ELSE IF entity_data.backend_type = "Catalog" /\ entity_data.component # Absent
        THEN [bare EXCEPT !.values = << [k |-> <<"identifier">>, v |-> <<entity_data.component>>] >>]
        ELSE bare

RegisterName(component_to_entity_id, entity_data, entity_id) ==
    IF entity_data.backend_type = "HarnessIACM" /\ entity_data.template # Absent
    THEN DictPut(component_to_entity_id, entity_data.template, entity_id)
    ELSE IF entity_data.backend_type = "Catalog" /\ entity_data.component # Absent
    THEN DictPut(component_to_entity_id, entity_data.component, entity_id)
    ELSE component_to_entity_id

\* StoreEntity with the entity map rebuilt around the new entity.
StoreEntity_replacing(graph, entity) == [graph EXCEPT !.entities = <<entity>>]

StoreEntity(graph, entity) ==
    IF entity.id \in EntityIds(graph)
    THEN [graph EXCEPT !.entities[EntityIndex(graph, entity.id)] = entity]
    ELSE [graph EXCEPT !.entities = Append(@, entity)]

Stored(self, entity_data, entity_id, entity) ==
    [self EXCEPT !.component_to_entity_id = RegisterName(@, entity_data, entity_id),
                 !.graph = StoreEntity(@, entity)]

Created(self, entity_data, entity_id, inputs) ==
    Stored([self EXCEPT !.entity_counter = @ + 1], entity_data, entity_id,
           NewEntity(entity_data, entity_id,
                     ResolveDependencies(self.component_to_entity_id, entity_data.dependency_names),
                     inputs))

RECURSIVE BuildFrom(_, _, _)
BuildFrom(self, entities, n) ==
    IF n > Len(entities) THEN self
    ELSE BuildFrom(Created(self, entities[n],
                           _generate_entity_id(entities[n], self.entity_counter),
                           entities[n].inputs),
                   entities, n + 1)

_build_graph_from_intent(self, intent) ==
    BuildFrom([self EXCEPT !.graph = BlueprintGraph(<<>>, <<>>)], intent.entities, 1)

\* _apply_intent_bindings: a binding is [entity_id, path, value], the key
\* split at its first dot; a key without a dot has the empty path.
BindingUpdates(graph, bindings) ==
    LET usable == SelectSeqBy(bindings,
                      {b \in Range(bindings) : b.path # <<>> /\ b.entity_id \in EntityIds(graph)})
    IN  [i \in 1..Len(usable) |->
            ScalarUpdate(usable[i].entity_id,
                         IF \/ PathStartsWith(usable[i].path, <<"config">>)
                            \/ PathStartsWith(usable[i].path, <<"values">>)
                            \/ PathStartsWith(usable[i].path, <<"steps">>)
                            \/ PathStartsWith(usable[i].path, <<"env", "config">>)
                         THEN usable[i].path
                         ELSE <<"values">> \o usable[i].path,
                         usable[i].value, "literal")]

Bound(self, updates, bound) ==
    [self EXCEPT !.graph = bound.graph,
                 !.applied = SubSeq(updates, 1, bound.handed),
                 !.raised = bound.raised]

ApplyAll(self, updates) == Bound(self, updates, ApplyUpdatesFrom(self.graph, updates, 1))

_apply_intent_bindings(self, bindings) == ApplyAll(self, BindingUpdates(self.graph, bindings))

\* ContinueIfBound without the assignment of GRAPH_CREATED.
ContinueIfBound_unmarked(bound) ==
    IF bound.raised THEN bound ELSE _validate_and_continue(bound)

ContinueIfBound(bound) ==
    IF bound.raised THEN bound
    ELSE _validate_and_continue(SetState(bound, "GRAPH_CREATED"))

_handle_start(self, intent) ==
    ContinueIfBound(
        _apply_intent_bindings(
            _build_graph_from_intent(SetState(self, "INTENT_PARSED"), intent),
            intent.bindings))

Added(self, entity_data, entity_id) ==
    IF entity_id \in EntityIds(self.graph)
    THEN [self EXCEPT !.entity_counter = @ + 1]
    ELSE [Created(self, entity_data, entity_id, <<>>) EXCEPT
            !.added = @ \/ entity_data.backend_type \in {"HarnessIACM", "Catalog"}]

RECURSIVE ExpandFrom(_, _, _)
ExpandFrom(self, new_entities, n) ==
    IF n > Len(new_entities) THEN self
    ELSE ExpandFrom(Added(self, new_entities[n],
                          _generate_entity_id(new_entities[n], self.entity_counter)),
                    new_entities, n + 1)

Acknowledged(self) == [self EXCEPT !.response.acknowledged = TRUE]

ContinueIfAdded(expanded) ==
    IF expanded.added
    THEN Acknowledged(_validate_and_continue(SetState(expanded, "GRAPH_CREATED")))
    ELSE [expanded EXCEPT !.response = Response("no_new_entities", "", <<>>, FALSE)]

_handle_entity_expansion(self, new_entities) ==
    ContinueIfAdded(ExpandFrom(self, new_entities, 1))

(***************************************************************************)
(* _handle_user_response.  compound_parsed is the result of                *)
(* parse_compound_answer, a dict from path to [kind, value, step,          *)
(* classification]; single is the result of parse_answer for the pending   *)
(* requirement, error marking {"value": None, "error": ...}; new_entities  *)
(* is the result of detect_new_entities.                                   *)
(***************************************************************************)
RequirementFor(group, path) ==
    LET hits == {i \in 1..Len(group) : group[i].path = path}
    IN  group[CHOOSE i \in hits : \A j \in hits : i <= j]

\* CompoundUpdates without the lookup of the requirement for a path.
CompoundUpdates_unfiltered(group, compound_parsed) ==
    [i \in 1..Len(compound_parsed) |->
        Update(group[1].entity_id, compound_parsed[i].k,
               compound_parsed[i].v.kind, compound_parsed[i].v.value, compound_parsed[i].v.step,
               compound_parsed[i].v.classification)]

CompoundUpdates(group, compound_parsed) ==
    LET matched == SelectSeqBy(compound_parsed,
                       {item \in Range(compound_parsed) :
                            \E i \in 1..Len(group) : group[i].path = item.k})
    IN  [i \in 1..Len(matched) |->
            Update(RequirementFor(group, matched[i].k).entity_id, matched[i].k,
                   matched[i].v.kind, matched[i].v.value, matched[i].v.step,
                   matched[i].v.classification)]

\* STEP 2 and STEP 3 of _handle_user_response, after an answer was applied.
ContinueAfterAnswer(self, new_entities) ==
    IF self.raised THEN self
    ELSE IF new_entities # <<>> THEN _handle_entity_expansion(self, new_entities)
    ELSE IF \/ self.current_entity_group = <<>>
            \/ self.current_question_index >= Len(self.missing_requirements)
    THEN _validate_and_continue(self)
    ELSE [self EXCEPT !.response =
            formulate_question(self.missing_requirements[self.current_question_index + 1])]

\* STEP 1, compound branch: the batch is cleared once every update returned.
BatchApplied(self) ==
    IF self.raised THEN self ELSE [self EXCEPT !.current_entity_group = <<>>]

\* STEP 1, single branch: the index moves on once the update returned.
PendingApplied(self) ==
    IF self.raised THEN self ELSE [self EXCEPT !.current_question_index = @ + 1]

AnswerApplied(self, compound_parsed, single, current_req) ==
    IF self.current_entity_group # <<>> /\ compound_parsed # <<>>
    THEN BatchApplied(ApplyAll([self EXCEPT !.op = "compound"],
                               CompoundUpdates(self.current_entity_group, compound_parsed)))
    ELSE PendingApplied(ApplyAll([self EXCEPT !.op = "single"],
                                 << Update(current_req.entity_id, current_req.path, single.kind,
                                           single.value, single.step, single.classification) >>))

\* A variant that moves on to the next question when the answer was not
\* understood.
_handle_user_response_skipping(self, compound_parsed, single, new_entities) ==
    IF self.current_question_index >= Len(self.missing_requirements)
    THEN [self EXCEPT !.response = Response("no_pending_questions", "", <<>>, FALSE)]
    ELSE IF /\ ~(self.current_entity_group # <<>> /\ compound_parsed # <<>>)
            /\ single.error
    THEN [self EXCEPT
            !.response = formulate_question(self.missing_requirements[self.current_question_index + 1]),
            !.current_question_index = @ + 1,
            !.op = "error"]
    ELSE ContinueAfterAnswer(
             AnswerApplied(self, compound_parsed, single,
                           self.missing_requirements[self.current_question_index + 1]),
             new_entities)

_handle_user_response(self, compound_parsed, single, new_entities) ==
    IF self.current_question_index >= Len(self.missing_requirements)
    THEN [self EXCEPT !.response = Response("no_pending_questions", "", <<>>, FALSE)]
    ELSE IF /\ ~(self.current_entity_group # <<>> /\ compound_parsed # <<>>)
            /\ single.error
    THEN [self EXCEPT
            !.response = formulate_question(self.missing_requirements[self.current_question_index + 1]),
            !.op = "error"]
    ELSE ContinueAfterAnswer(
             AnswerApplied(self, compound_parsed, single,
                           self.missing_requirements[self.current_question_index + 1]),
             new_entities)

(***************************************************************************)
(* Bounds and the collaborators' results                                   *)
(***************************************************************************)
MaxCalls == 3

MaxEntities == 3

Answer(kind, value, step, classification) ==
    [kind |-> kind, value |-> value, step |-> step, classification |-> classification]

PipelineStep(pipeline_id) ==
    Step(<< [k |-> "pipeline", v |-> pipeline_id] >>, VariableList(<<>>))

KnownPipelineFor(backend_type, step_name) ==
    IF backend_type = "Catalog"
    THEN (IF step_name = "destroy" THEN <<"UninstallService">> ELSE <<"DeployService">>)
    ELSE (IF step_name = "destroy" THEN <<"DestroyIaCM">> ELSE <<"RunIaCM">>)

\* A value that resolves the requirement at path, as a user would give it.
KnownValue(path, backend_type) ==
    IF path = <<"values", "workspace">> THEN <<"dev-workspace">>
    ELSE IF path = <<"values", "identifier">> THEN <<"frontend">>
    ELSE IF path = <<"values", "environment", "identifier">> THEN <<"mycluster">>
    ELSE IF path = <<"values", "environment", "infra", "identifier">> THEN <<"ssemteamdelegate">>
    ELSE IF path = <<"steps", "create", "template">> THEN <<"TempNamespace">>
    ELSE IF path = <<"steps", "create", "version">> THEN <<"v1">>
    ELSE IF Len(path) \in {2, 3} /\ path[1] = "steps" THEN KnownPipelineFor(backend_type, path[2])
    ELSE IF Len(path) = 4 /\ path[1] = "steps" THEN <<"my-namespace">>
    ELSE <<"value">>

AnswerProfiles == {"literal", "unknown", "blueprint_input", "variable_reference"}

\* What parse_compound_answer may hold for one path.
CompoundAnswerFor(profile, path, backend_type) ==
    IF profile = "literal" THEN Answer("scalar", KnownValue(path, backend_type), EmptyStep, "literal")
    ELSE IF profile = "unknown" THEN Answer("scalar", <<"unknown">>, EmptyStep, "literal")
    ELSE IF profile = "blueprint_input"
    THEN Answer("scalar", <<path[Len(path)]>>, EmptyStep, "blueprint_input")
    ELSE Answer("scalar", <<"env", "config", "shared">>, EmptyStep, "variable_reference")

\* parse_answer: a step path yields a step dict, a variables path the empty
\* list, any other path the extracted text, classified blueprint_input when
\* the user asked for a blueprint input.
IsStepPath(path) == Len(path) = 2 /\ path[1] = "steps"

IsVariablesPath(path) == path[Len(path)] = "variables"

IsIdentifierPath(path) ==
    \E i \in 2..Len(path) : path[i] \in {"pipeline", "template", "identifier", "workspace"}

SingleAnswerFor(profile, path, backend_type) ==
    LET text == IF profile = "literal" THEN KnownValue(path, backend_type)
                ELSE IF profile = "unknown" THEN <<"unknown">>
                ELSE <<path[Len(path)]>>
    IN  IF IsVariablesPath(path)
        THEN [error |-> FALSE, kind |-> "list", value |-> <<>>, step |-> EmptyStep,
              classification |-> "literal"]
        ELSE IF IsStepPath(path)
        THEN [error |-> FALSE, kind |-> "dict", value |-> DictMarker, step |-> PipelineStep(text),
              classification |-> "literal"]
        ELSE [error |-> FALSE, kind |-> "scalar", value |-> text, step |-> EmptyStep,
              classification |-> IF profile = "blueprint_input" THEN "blueprint_input" ELSE "literal"]

ErrorMarker ==
    [error |-> TRUE, kind |-> "scalar", value |-> NoneV, step |-> EmptyStep,
     classification |-> "literal"]

SingleAnswers(path, backend_type) ==
    {SingleAnswerFor(profile, path, backend_type) :
        profile \in {"literal", "unknown", "blueprint_input"}}
    \cup (IF IsIdentifierPath(path) THEN {ErrorMarker} ELSE {})

RECURSIVE DistinctPaths(_)
DistinctPaths(group) ==
    IF group = <<>> THEN <<>>
    ELSE <<Head(group).path>>
         \o DistinctPaths(SelectSeqBy(Tail(group),
                {r \in Range(Tail(group)) : r.path # Head(group).path}))

UnaskedPath == <<"values", "region">>

\* The compound results: every path of the batch under each profile, one
\* path of the batch, or a path that is not in the batch.
CompoundAnswers(group, backend_type) ==
    LET paths == DistinctPaths(group)
        item(profile, path) == [k |-> path, v |-> CompoundAnswerFor(profile, path, backend_type)]
    IN  {[i \in 1..Len(paths) |-> item(profile, paths[i])] : profile \in AnswerProfiles}
        \cup {<<item("literal", paths[i])>> : i \in 1..Len(paths)}
        \cup {<<item("literal", UnaskedPath)>>}

\* The complete answer and the answer to the first question only.
PlainCompoundAnswers(group, backend_type) ==
    LET paths == DistinctPaths(group)
        item(path) == [k |-> path, v |-> CompoundAnswerFor("literal", path, backend_type)]
    IN  {[i \in 1..Len(paths) |-> item(paths[i])], <<item(paths[1])>>}

NoInputs == <<>>

NewEntityLists ==
    { <<>>,
      << EntityData("HarnessIACM", "TempNamespace", Absent, <<>>, NoInputs) >>,
      << EntityData("Catalog", Absent, "frontend", <<"TempNamespace">>, NoInputs) >>,
      << EntityData("Workflow", Absent, Absent, <<>>, NoInputs) >> }

Binding(entity_id, path, value) == [entity_id |-> entity_id, path |-> path, value |-> value]

Intent(entities, bindings) == [entities |-> entities, bindings |-> bindings]

Namespace == EntityData("HarnessIACM", "TempNamespace", Absent, <<>>, NoInputs)

Frontend(dependency_names) == EntityData("Catalog", Absent, "frontend", dependency_names, NoInputs)

\* An entity of the intent that carries the "id" the intent extractor gives it.
WithId(entity_data, id) ==
    [field \in DOMAIN entity_data \cup {"id"} |->
        IF field = "id" THEN id ELSE entity_data[field]]

Intents ==
    { Intent(<<>>, <<>>),
      Intent(<<Namespace>>, <<>>),
      Intent(<<Namespace, Frontend(<<"TempNamespace">>)>>, <<>>),
      Intent(<<WithId(Namespace, "ns"), WithId(Frontend(<<"TempNamespace">>), "frontend")>>,
             << Binding("ns", <<"workspace">>, <<"dev-workspace">>),
                Binding("tempnamespace_e1", <<"workspace">>, <<"dev-workspace">>),
                Binding("frontend_e2", <<"environment", "identifier">>, <<"mycluster">>),
                Binding("frontend_e2", <<"environment", "infra", "identifier">>, <<"ssemteamdelegate">>) >>),
      Intent(<<Frontend(<<"TempNamespace">>), Namespace>>, <<>>),
      Intent(<<Namespace, Namespace, Frontend(<<"tempnamespace_e1", "TempNamespace">>)>>,
             << Binding("frontend_e3", <<"environment", "identifier">>, <<"mycluster">>),
                Binding("frontend_e3", <<"environment", "infra", "identifier">>, <<"ssemteamdelegate">>) >>),
      Intent(<<Frontend(<<>>)>>,
             << Binding("frontend_e1", <<"steps", "apply", "variables", "replicas">>, <<"3">>) >>),
      Intent(<<Frontend(<<>>)>>,
             << Binding("frontend_e1", <<"environment", "identifier">>, <<"mycluster">>),
                Binding("frontend_e1", <<"environment", "infra", "identifier">>, <<"ssemteamdelegate">>),
                Binding("frontend_e1", <<"steps", "apply", "pipeline">>, <<"DeployService">>),
                Binding("frontend_e1", <<"steps", "destroy", "pipeline">>, <<"UninstallService">>),
                Binding("frontend_e1", <<"steps", "apply", "variables", "replicas">>, <<"3">>) >>),
      Intent(<<Frontend(<<>>)>>,
             << Binding("frontend_e1", <<"environment", "identifier">>, <<"mycluster">>),
                Binding("frontend_e1", <<"environment", "infra", "identifier">>, <<"ssemteamdelegate">>),
                Binding("frontend_e1", <<"steps", "apply", "pipeline">>, <<"DeployService">>),
                Binding("frontend_e1", <<"steps", "destroy", "pipeline">>, <<"UninstallService">>) >>),
      Intent(<<EntityData("HarnessIACM", Absent, Absent, <<>>, NoInputs)>>, <<>>),
      Intent(<<EntityData("HarnessIACM", "TempNamespace", Absent, <<>>,
                          << [k |-> "region", v |-> <<"eu">>] >>)>>, <<>>),
      Intent(<<EntityData("Workflow", Absent, Absent, <<>>, NoInputs)>>, <<>>),
      Intent(<<WithId(Namespace, "ns")>>,
             << Binding("ns", <<"workspace">>, <<"dev-workspace">>) >>) }

(***************************************************************************)
(* The engine as a state machine: one action per branch of                 *)
(* process_user_input.                                                     *)
(***************************************************************************)
VARIABLES graph, state, missing_requirements, current_question_index, yaml_output,
          current_entity_group, component_to_entity_id, entity_counter,
          response, raised, trace, applied, validated, op, parsed, calls

\* main.py: the count of answers the interactive loop has processed
VARIABLE iteration

vars == <<graph, state, missing_requirements, current_question_index, yaml_output,
          current_entity_group, component_to_entity_id, entity_counter,
          response, raised, trace, applied, validated, op, parsed, calls, pipelines,
          iteration>>

\* self at the start of a call
Self ==
    [graph |-> graph, state |-> state, missing_requirements |-> missing_requirements,
     current_question_index |-> current_question_index, yaml_output |-> yaml_output,
     current_entity_group |-> current_entity_group,
     component_to_entity_id |-> component_to_entity_id, entity_counter |-> entity_counter,
     response |-> NoResponse, raised |-> FALSE, trace |-> <<state>>, applied |-> <<>>,
     validated |-> FALSE, added |-> FALSE, op |-> "none"]

\* What a call leaves in the engine, whether it returned or raised.
Returned(self, compound_paths) ==
    /\ graph' = self.graph
    /\ state' = self.state
    /\ missing_requirements' = self.missing_requirements
    /\ current_question_index' = self.current_question_index
    /\ yaml_output' = self.yaml_output
    /\ current_entity_group' = self.current_entity_group
    /\ component_to_entity_id' = self.component_to_entity_id
    /\ entity_counter' = self.entity_counter
    /\ response' = IF self.raised THEN NoResponse ELSE self.response
    /\ raised' = self.raised
    /\ trace' = self.trace
    /\ applied' = self.applied
    /\ validated' = self.validated
    /\ op' = self.op
    /\ parsed' = compound_paths
    /\ calls' = calls + 1
    /\ UNCHANGED pipelines

Returns(self, compound_paths) == Returned(self, compound_paths) /\ UNCHANGED iteration

Init ==
    /\ pipelines = PIPELINES
    /\ graph = BlueprintGraph(<<>>, <<>>)
    /\ state = "START"
    /\ missing_requirements = <<>>
    /\ current_question_index = 0
    /\ yaml_output = NoDocument
    /\ current_entity_group = <<>>
    /\ component_to_entity_id = <<>>
    /\ entity_counter = 0
    /\ response = NoResponse
    /\ raised = FALSE
    /\ trace = <<"START">>
    /\ applied = <<>>
    /\ validated = FALSE
    /\ op = "none"
    /\ parsed = <<>>
    /\ calls = 0
    /\ iteration = 0

BackendTypeOf(entity_id) ==
    IF entity_id \in EntityIds(graph) THEN EntityOf(graph, entity_id).backend_type ELSE "none"

Start ==
    /\ state = "START"
    /\ \E intent \in Intents :
         Returns([_handle_start(Self, intent) EXCEPT !.op = "start"], <<>>)

\* parse_compound_answer found something for the batch; parse_answer is not called.
AnswerCompound ==
    /\ state = "NEEDS_INPUT"
    /\ calls < MaxCalls
    /\ current_question_index < Len(missing_requirements)
    /\ current_entity_group # <<>>
    /\ LET group_type == BackendTypeOf(current_entity_group[1].entity_id)
       IN  \E new_entities \in NewEntityLists :
           \E compound_parsed \in (IF new_entities = <<>>
                                   THEN CompoundAnswers(current_entity_group, group_type)
                                   ELSE PlainCompoundAnswers(current_entity_group, group_type)) :
             /\ entity_counter + Len(new_entities) <= MaxEntities
             /\ Returns(_handle_user_response(Self, compound_parsed, ErrorMarker, new_entities),
                        [i \in 1..Len(compound_parsed) |-> compound_parsed[i].k])

\* parse_compound_answer found nothing (or no batch is pending): the answer
\* is parsed for the pending requirement alone.
AnswerSingle ==
    /\ state = "NEEDS_INPUT"
    /\ calls < MaxCalls
    /\ current_question_index < Len(missing_requirements)
    /\ LET current_req == missing_requirements[current_question_index + 1]
           backend_type == BackendTypeOf(current_req.entity_id)
       IN  \E new_entities \in NewEntityLists :
           \E single \in (IF new_entities = <<>>
                          THEN SingleAnswers(current_req.path, backend_type)
                          ELSE {SingleAnswerFor("literal", current_req.path, backend_type)}) :
             /\ entity_counter + Len(new_entities) <= MaxEntities
             /\ Returns(_handle_user_response(Self, <<>>, single, new_entities), <<>>)

NoPendingQuestion ==
    /\ state = "NEEDS_INPUT"
    /\ calls < MaxCalls
    /\ current_question_index >= Len(missing_requirements)
    /\ Returns(_handle_user_response(Self, <<>>, ErrorMarker, <<>>), <<>>)

Extend ==
    /\ state = "YAML_RENDERED"
    /\ calls < MaxCalls
    /\ \E new_entities \in NewEntityLists \ {<<>>} :
         /\ entity_counter + Len(new_entities) <= MaxEntities
         /\ Returns([_handle_entity_expansion(Self, new_entities) EXCEPT !.op = "extend"], <<>>)

ShowYaml ==
    /\ state = "YAML_RENDERED"
    /\ calls < MaxCalls
    /\ Returns([Self EXCEPT !.response = Response("yaml", "", <<>>, FALSE), !.op = "show"], <<>>)

Idle ==
    /\ state \notin {"START", "NEEDS_INPUT", "YAML_RENDERED"}
    /\ calls < MaxCalls
    /\ Returns([Self EXCEPT !.response =
                   Response(IF state = "GRAPH_COMPLETE" THEN "complete_and_valid" ELSE "unknown_state",
                            "", <<>>, FALSE),
                !.op = "idle"], <<>>)

Next == Start \/ AnswerCompound \/ AnswerSingle \/ NoPendingQuestion \/ Extend \/ ShowYaml \/ Idle

Spec == Init /\ [][Next]_vars

(***************************************************************************)
(* The resolver on its own: the graphs the builder and _apply_update       *)
(* produce from two infrastructure entities and two services, resolved     *)
(* MaxPasses times.                                                        *)
(***************************************************************************)
MaxPasses == 2

NewEngine ==
    [graph |-> BlueprintGraph(<<>>, <<>>), state |-> "START", missing_requirements |-> <<>>,
     current_question_index |-> 0, yaml_output |-> NoDocument,
     current_entity_group |-> <<>>, component_to_entity_id |-> <<>>, entity_counter |-> 0,
     response |-> NoResponse, raised |-> FALSE, trace |-> <<"START">>, applied |-> <<>>,
     validated |-> FALSE, added |-> FALSE, op |-> "none"]

SampleTemplates == {"TempNamespace", "OtherTemplate", Absent}

SampleDependencies ==
    { <<>>, <<"TempNamespace">>,
      <<"tempnamespace_e1", "tempnamespace_e2">>, <<"tempnamespace_e2", "tempnamespace_e1">>,
      <<"backend_e4", "tempnamespace_e1">>, <<"OtherTemplate", "TempNamespace">> }

SampleEnvironments == {NoneV, <<"mycluster">>, <<"unknown">>}

SampleInfrastructures == {NoneV, <<"ssemteamdelegate">>, <<"unknown">>}

SampleNamespaces == {NoneV, <<"custom">>}

SampleIntent(template1, template2, dependency_names) ==
    Intent(<< EntityData("HarnessIACM", template1, Absent, <<>>, NoInputs),
              EntityData("HarnessIACM", template2, Absent, <<>>, NoInputs),
              EntityData("Catalog", Absent, "frontend", dependency_names, NoInputs),
              EntityData("Catalog", Absent, "backend", <<"TempNamespace">>, NoInputs) >>,
           <<>>)

ValueUpdates(entity_id, env_id, infra_id, namespace) ==
    LET updates == << ScalarUpdate(entity_id, <<"values", "environment", "identifier">>, env_id, "literal"),
                      ScalarUpdate(entity_id, <<"values", "environment", "infra", "identifier">>, infra_id, "literal"),
                      ScalarUpdate(entity_id, <<"values", "environment", "infra", "namespace">>, namespace, "literal") >>
    IN  SelectSeqBy(updates, {u \in Range(updates) : u.value # NoneV})

SampleGraph(intent, updates) ==
    ApplyUpdatesFrom(_build_graph_from_intent(NewEngine, intent).graph, updates, 1).graph

SampleGraphs ==
    { SampleGraph(SampleIntent(template1, template2, dependency_names),
                  ValueUpdates("frontend_e3", env_id, infra_id, namespace)
                  \o ValueUpdates("backend_e4", <<"mycluster">>, <<"ssemteamdelegate">>, NoneV)) :
        template1 \in SampleTemplates, template2 \in SampleTemplates,
        dependency_names \in SampleDependencies, env_id \in SampleEnvironments,
        infra_id \in SampleInfrastructures, namespace \in SampleNamespaces }

InitGraph ==
    /\ pipelines = PIPELINES
    /\ graph \in SampleGraphs
    /\ state = "GRAPH_CREATED"
    /\ missing_requirements = <<>>
    /\ current_question_index = 0
    /\ yaml_output = NoDocument
    /\ current_entity_group = <<>>
    /\ component_to_entity_id = <<>>
    /\ entity_counter = Len(graph.entities)
    /\ response = NoResponse
    /\ raised = FALSE
    /\ trace = <<"GRAPH_CREATED">>
    /\ applied = <<>>
    /\ validated = FALSE
    /\ op = "none"
    /\ parsed = <<>>
    /\ calls = 0
    /\ iteration = 0

Resolve ==
    /\ calls < MaxPasses
    /\ graph' = auto_wire_dependencies(graph)
    /\ op' = "resolve"
    /\ calls' = calls + 1
    /\ UNCHANGED <<state, missing_requirements, current_question_index, yaml_output,
                   current_entity_group, component_to_entity_id, entity_counter,
                   response, raised, trace, applied, validated, parsed, pipelines, iteration>>

NextGraph == Resolve

SpecGraph == InitGraph /\ [][NextGraph]_vars

(***************************************************************************)
(* One GRAPH_CREATED -> VALIDATION pass and its parts on their own, on the  *)
(* graphs the builder and _apply_update produce from an infrastructure     *)
(* entity, a service and an entity of an unknown backend type, under       *)
(* PIPELINES tables with two, one and no pipeline per backend type.        *)
(***************************************************************************)
PipelineTable(keys) == SelectSeqBy(PIPELINES, {item \in Range(PIPELINES) : item.k \in keys})

PipelineTables ==
    { PIPELINES, PipelineTable({"RunIaCM", "DeployService"}), PipelineTable({"RunIaCM"}) }

PartTemplates == {"TempNamespace", "OtherTemplate"}

\* The infrastructure entity as built, with its workspace bound, with an
\* apply step that holds a variable list only, or every entity with inputs.
PartShapes == {"bare", "workspace", "variables", "inputs"}

PartDependencies == { <<>>, <<"TempNamespace">>, <<"ghost">> }

PartEnvironments ==
    { <<NoneV, NoneV>>, <<<<"mycluster">>, <<"ssemteamdelegate">>>>,
      <<<<"unknown">>, <<"ssemteamdelegate">>>> }

\* A step whose variables refer to outputs of the entities named in
\* references, a sequence of <<id, field>> pairs.
WiredStep(pipeline_id, references) ==
    Step(<< [k |-> "pipeline", v |-> pipeline_id] >>,
         VariableList([i \in 1..Len(references) |->
                          [name  |-> references[i][1] \o "_" \o references[i][2],
                           value |-> Expr(<<"dependencies", references[i][1],
                                            "output", references[i][2]>>)]]))

\* The apply step of the service: none, or a step dict as parse_answer
\* returns it.
PartSteps ==
    { EmptyStep,
      PipelineStep(<<"DeployService">>),
      PipelineStep(<<"CustomDeploy">>),
      Step(<<>>, VariableList(<<>>)),
      WiredStep(<<"DeployService">>, << <<"tempnamespace_e1", "name">> >>),
      WiredStep(<<"DeployService">>, << <<"tempnamespace_e1", "bogus">> >>),
      WiredStep(<<"DeployService">>, << <<"tempnamespace_e1", "name">>, <<"ghost", "name">> >>) }

PartFlows == { EmptyStep, PipelineStep(<<"CustomFlow">>) }

PartIntent(template, shape, dependency_names) ==
    LET inputs == IF shape = "inputs" THEN << [k |-> "region", v |-> <<"eu">>] >> ELSE NoInputs
    IN  Intent(<< EntityData("HarnessIACM", template, Absent, <<>>, inputs),
                  EntityData("Catalog", Absent, "frontend", dependency_names, inputs),
                  EntityData("Workflow", Absent, Absent, <<>>, inputs) >>,
               <<>>)

StepUpdates(entity_id, step) ==
    IF step = EmptyStep THEN <<>>
    ELSE << DictUpdate(entity_id, <<"steps", "apply">>, step, "literal") >>

ShapeUpdates(entity_id, shape) ==
    IF shape = "workspace"
    THEN << ScalarUpdate(entity_id, <<"values", "workspace">>, <<"dev-workspace">>, "literal") >>
    ELSE IF shape = "variables"
    THEN << ListUpdate(entity_id, <<"steps", "apply", "variables">>, "literal") >>
    ELSE <<>>

PartGraph(template, shape, dependency_names, environment, step, flow) ==
    SampleGraph(PartIntent(template, shape, dependency_names),
                ShapeUpdates(Sanitize(template) \o "_e1", shape)
                \o ValueUpdates("frontend_e2", environment[1], environment[2], NoneV)
                \o StepUpdates("frontend_e2", step)
                \o StepUpdates("entity_e3", flow))

PartGraphs ==
    { PartGraph(template, shape, dependency_names, environment, step, flow) :
        template \in PartTemplates, shape \in PartShapes,
        dependency_names \in PartDependencies, environment \in PartEnvironments,
        step \in PartSteps, flow \in PartFlows }

InitParts ==
    /\ pipelines \in PipelineTables
    /\ graph \in PartGraphs
    /\ state = "GRAPH_CREATED"
    /\ missing_requirements = <<>>
    /\ current_question_index = 0
    /\ yaml_output = NoDocument
    /\ current_entity_group = <<>>
    /\ component_to_entity_id = <<>>
    /\ entity_counter = Len(graph.entities)
    /\ response = NoResponse
    /\ raised = FALSE
    /\ trace = <<"GRAPH_CREATED">>
    /\ applied = <<>>
    /\ validated = FALSE
    /\ op = "none"
    /\ parsed = <<>>
    /\ calls = 0
    /\ iteration = 0

\* _auto_fill_obvious_values alone
AutoFill ==
    /\ state = "GRAPH_CREATED"
    /\ graph' = _auto_fill_obvious_values(graph)
    /\ op' = "fill"
    /\ UNCHANGED <<state, missing_requirements, current_question_index, yaml_output,
                   current_entity_group, component_to_entity_id, entity_counter,
                   response, raised, trace, applied, validated, parsed, calls, pipelines, iteration>>

\* _validate_and_continue: auto-fill, resolver, validator, then the question
\* or the document
Pass ==
    /\ state = "GRAPH_CREATED"
    /\ Returns([_validate_and_continue(Self) EXCEPT !.op = "validate"], <<>>)

\* render_yaml alone
Render ==
    /\ state = "GRAPH_CREATED"
    /\ op # "render"
    /\ yaml_output' = IF RenderRaises(graph) THEN NoDocument ELSE render_yaml(graph)
    /\ raised' = RenderRaises(graph)
    /\ op' = "render"
    /\ UNCHANGED <<graph, state, missing_requirements, current_question_index,
                   current_entity_group, component_to_entity_id, entity_counter,
                   response, trace, applied, validated, parsed, calls, pipelines, iteration>>

NextParts == AutoFill \/ Pass \/ Render

SpecParts == InitParts /\ [][NextParts]_vars

(***************************************************************************)
(* main.py: the interactive loop around process_user_input.  An empty      *)
(* answer goes round the loop without a call and without a change; quit    *)
(* leaves the loop.  The answers are the complete answer to the batch and  *)
(* the answer to its first question.                                       *)
(***************************************************************************)
max_iterations == 50

\* One pass of the loop with an answer: iteration is incremented when
\* process_user_input returned, not when it raised.
LoopAnswer ==
    /\ ~(calls = 1 /\ raised)      \* the call for the intent did not raise
    /\ state = "NEEDS_INPUT" /\ iteration < max_iterations
    /\ iteration + 1 < MaxCalls
    /\ current_question_index < Len(missing_requirements)
    /\ current_entity_group # <<>>
    /\ \E compound_parsed \in PlainCompoundAnswers(current_entity_group,
                                BackendTypeOf(current_entity_group[1].entity_id)) :
          Returned(_handle_user_response(Self, compound_parsed, ErrorMarker, <<>>),
                   [i \in 1..Len(compound_parsed) |-> compound_parsed[i].k])
    /\ iteration' = IF raised' THEN iteration ELSE iteration + 1

\* One pass of the loop in which process_user_input raises before it assigns
\* anything: the call of parse_compound_answer with four arguments against
\* its three parameters, or a collaborator without its client.
LoopAnswerRaises ==
    /\ ~(calls = 1 /\ raised)      \* the call for the intent did not raise
    /\ state = "NEEDS_INPUT" /\ iteration < max_iterations
    /\ calls <= max_iterations + 1
    /\ current_question_index < Len(missing_requirements)
    /\ current_entity_group # <<>>
    /\ Returned([Self EXCEPT !.raised = TRUE, !.op = "raise"], <<>>)
    /\ UNCHANGED iteration

NextMain == Start \/ LoopAnswer \/ LoopAnswerRaises

SpecMain == Init /\ [][NextMain]_vars

(***************************************************************************)
(* Properties                                                              *)
(***************************************************************************)

C2_ValidationOutcome ==
    validated =>
        /\ (validate_graph(graph) = <<>>) <=> (state = "YAML_RENDERED")
        /\ (validate_graph(graph) # <<>>) => (state = "NEEDS_INPUT")

\* C4: a second pass of auto_wire_dependencies changes nothing.
C4_ResolverIdempotent ==
    auto_wire_dependencies(auto_wire_dependencies(graph)) = auto_wire_dependencies(graph)

NamespacePath == <<"environment", "infra", "namespace">>

\* C4: the resolver ran twice on a graph in which it wired a binding.
C4_Witness ==
    /\ op = "resolve"
    /\ calls = 2
    /\ \E i \in 1..Len(graph.entities) :
          IsExpressionString(_get_nested_value(graph.entities[i].values, NamespacePath))

RequiredSteps(entity) ==
    IF HasContract(entity.backend_type)
    THEN LET steps == get_backend_contract(entity.backend_type).steps
         IN  {steps[k].k : k \in {j \in 1..Len(steps) : steps[j].v.required}}
    ELSE {}

RoundTrip(entity, rendered) ==
    /\ rendered.id = entity.id
    /\ \A step_name \in RequiredSteps(entity) : DictHas(rendered.backend.steps, step_name)
    /\ \A j \in 1..Len(entity.dependencies) :
          /\ rendered.hasDependencies
          /\ \E m \in 1..Len(rendered.dependencies) :
                rendered.dependencies[m].identifier = entity.dependencies[j]
    /\ \A k \in 1..Len(entity.steps) :
          entity.steps[k].v.variables.kind = "list" =>
              /\ DictHas(rendered.backend.steps, entity.steps[k].k)
              /\ LET variables == DictGet(rendered.backend.steps, entity.steps[k].k).variables
                 IN  /\ Len(variables) = Len(entity.steps[k].v.variables.list)
                     /\ \A v \in 1..Len(variables) :
                           variables[v].value = entity.steps[k].v.variables.list[v].value

\* C5: a graph validated with zero findings has a rendered document holding
\* every required step, every declared dependency and every variable value
\* as stored.
C5_RenderRoundTrip ==
    (validated /\ validate_graph(graph) = <<>>) =>
        /\ yaml_output.rendered
        /\ Len(yaml_output.entities) = Len(graph.entities)
        /\ \A i \in 1..Len(graph.entities) : RoundTrip(graph.entities[i], yaml_output.entities[i])

BlueprintInputUpdate(entity_id, step_name, input_name, input) ==
    ScalarUpdate(entity_id, <<"steps", step_name, "variables", input_name>>, <<input>>,
                 "blueprint_input")

HasVariable(step, input_name, expression) ==
    /\ step.variables.kind = "list"
    /\ \E i \in 1..Len(step.variables.list) :
          step.variables.list[i] = [name |-> input_name, value |-> expression]

AnsweredSteps == {"create", "apply", "destroy", "delete"}

AnsweredInputs == {"name", "region"}

DeclaredEdges ==
    { <<"START", "INTENT_PARSED">>, <<"INTENT_PARSED", "GRAPH_CREATED">>,
      <<"GRAPH_CREATED", "VALIDATION">>, <<"VALIDATION", "NEEDS_INPUT">>,
      <<"NEEDS_INPUT", "VALIDATION">>, <<"VALIDATION", "GRAPH_COMPLETE">>,
      <<"GRAPH_COMPLETE", "YAML_RENDERED">>, <<"YAML_RENDERED", "GRAPH_CREATED">> }

Transitions == {<<trace[i], trace[i + 1]>> : i \in 1..(Len(trace) - 1)}

Batch == {current_entity_group[i].path : i \in 1..Len(current_entity_group)}

Reported(requirement, findings) ==
    \E m \in 1..Len(findings) :
        /\ findings[m].entity_id = requirement.entity_id
        /\ findings[m].path = requirement.path

AnsweredBefore(requirement) ==
    \E m \in 1..current_question_index :
        /\ missing_requirements[m].entity_id = requirement.entity_id
        /\ missing_requirements[m].path = requirement.path

C9_SameQuestion ==
    [][op' = "error" =>
         /\ response' = response
         /\ current_question_index' = current_question_index]_vars

Qualifies(g, dep_id) ==
    /\ dep_id \in EntityIds(g)
    /\ EntityOf(g, dep_id).backend_type = "HarnessIACM"
    /\ DictHas(EntityOf(g, dep_id).steps, "create")
    /\ KnownTemplate(StepField(DictGet(EntityOf(g, dep_id).steps, "create"), "template"))
    /\ "name" \in Range(get_iacm_template(
                          StepField(DictGet(EntityOf(g, dep_id).steps, "create"), "template")).outputs)

NeedsNamespace(entity) ==
    /\ entity.backend_type = "Catalog"
    /\ Truthy(_get_nested_value(entity.values, <<"environment", "identifier">>))
    /\ Truthy(_get_nested_value(entity.values, <<"environment", "infra", "identifier">>))
    /\ KnownInfrastructure(_get_nested_value(entity.values, <<"environment", "identifier">>),
                           _get_nested_value(entity.values, <<"environment", "infra", "identifier">>))
    /\ "namespace" \in Range(get_infrastructure(
                                _get_nested_value(entity.values, <<"environment", "identifier">>),
                                _get_nested_value(entity.values, <<"environment", "infra", "identifier">>)
                             ).required_bindings)
    /\ ~Truthy(_get_nested_value(entity.values, NamespacePath))

QualifyingPositions(g, entity) ==
    {j \in 1..Len(entity.dependencies) : Qualifies(g, entity.dependencies[j])}

\* C10 as stated: after the resolver, the namespace binding of such a Catalog
\* entity names any qualifying dependency d it declares.
C10_AnyDependency ==
    [][op' = "resolve" =>
         \A i \in 1..Len(graph.entities) :
             NeedsNamespace(graph.entities[i]) =>
                 \A j \in QualifyingPositions(graph, graph.entities[i]) :
                     _get_nested_value(graph'.entities[i].values, NamespacePath)
                       = Expr(<<"dependencies", graph.entities[i].dependencies[j], "output", "name">>)]_vars

\* C10: after the resolver, the namespace binding of such a Catalog entity
\* names the first qualifying dependency in the entity's dependency list.
C10_FirstDependency ==
    [][op' = "resolve" =>
         \A i \in 1..Len(graph.entities) :
             (NeedsNamespace(graph.entities[i]) /\ QualifyingPositions(graph, graph.entities[i]) # {}) =>
                 LET positions == QualifyingPositions(graph, graph.entities[i])
                     first == CHOOSE j \in positions : \A m \in positions : j <= m
                 IN  _get_nested_value(graph'.entities[i].values, NamespacePath)
                       = Expr(<<"dependencies", graph.entities[i].dependencies[first], "output", "name">>)]_vars

\* C10: the resolver wired an entity that declares two qualifying
\* dependencies to the first of them.
C10_Witness ==
    /\ op = "resolve"
    /\ calls = 1
    /\ \E i \in 1..Len(graph.entities) :
          /\ Cardinality(QualifyingPositions(graph, graph.entities[i])) >= 2
          /\ LET positions == QualifyingPositions(graph, graph.entities[i])
                 first == CHOOSE j \in positions : \A m \in positions : j <= m
             IN  _get_nested_value(graph.entities[i].values, NamespacePath)
                   = Expr(<<"dependencies", graph.entities[i].dependencies[first], "output", "name">>)

\* The step _auto_fill_obvious_values creates.
CreatedStep(pipeline_id) ==
    Step(<< [k |-> "pipeline", v |-> <<pipeline_id>>] >>, VariableList(<<>>))

AutoFilledStep(before, after, step_name, pipeline_id) ==
    IF ~DictHas(before.steps, step_name)
    THEN /\ DictHas(after.steps, step_name)
         /\ DictGet(after.steps, step_name) = CreatedStep(pipeline_id)
    ELSE IF ~DictHas(DictGet(before.steps, step_name).fields, "pipeline")
    THEN /\ DictHas(after.steps, step_name)
         /\ StepField(DictGet(after.steps, step_name), "pipeline") = <<pipeline_id>>
    ELSE DictGet(after.steps, step_name) = DictGet(before.steps, step_name)

AutoFilled(before, after, alone) ==
    LET available_pipelines == AvailablePipelines(before.backend_type)
    IN  IF Len(available_pipelines) = 1
        THEN \A step_name \in {"apply", "destroy"} :
                 AutoFilledStep(before, after, step_name, available_pipelines[1])
        ELSE IF alone THEN after = before
        ELSE after.steps = before.steps

\* C11: auto-fill, alone and as the first part of every validation pass: for
\* an entity whose backend type has exactly one known pipeline, a missing
\* apply or destroy step is created with that pipeline id and an empty
\* variable list, and an existing one without a pipeline field gets that
\* pipeline id; with no or several known pipelines the entity is left as it
\* was.
C11_AutoFill ==
    [][op' \in {"fill", "validate"} =>
         /\ Len(graph'.entities) = Len(graph.entities)
         /\ \A i \in 1..Len(graph.entities) :
                AutoFilled(graph.entities[i], graph'.entities[i], op' = "fill")]_vars

\* An infrastructure entity whose backend type has one pipeline, given both
\* steps by auto-fill, next to an entity of a backend type without pipelines.
C11_Witness ==
    /\ op = "fill"
    /\ \E i \in 1..Len(graph.entities) :
         /\ graph.entities[i].backend_type = "HarnessIACM"
         /\ Len(AvailablePipelines("HarnessIACM")) = 1
         /\ DictHas(graph.entities[i].steps, "destroy")
         /\ DictGet(graph.entities[i].steps, "destroy")
              = CreatedStep(AvailablePipelines("HarnessIACM")[1])
         /\ DictHas(graph.entities[i].steps, "apply")
         /\ StepField(DictGet(graph.entities[i].steps, "apply"), "pipeline")
              = <<AvailablePipelines("HarnessIACM")[1]>>
    /\ \E i \in 1..Len(graph.entities) :
         /\ AvailablePipelines(graph.entities[i].backend_type) = <<>>
         /\ graph.entities[i].steps = <<>>

\* The entity of the scenario: built from an intent that names the template
\* TempNamespace, with no apply or destroy step and no entity inputs, while
\* one pipeline is known for its backend type.
TemplateOnly(entity) ==
    /\ entity.backend_type = "HarnessIACM"
    /\ Len(AvailablePipelines("HarnessIACM")) = 1
    /\ DictHas(entity.steps, "create")
    /\ StepField(DictGet(entity.steps, "create"), "template") = <<"TempNamespace">>
    /\ ~DictHas(entity.steps, "apply")
    /\ ~DictHas(entity.steps, "destroy")
    /\ entity.inputs = <<>>

FindingPaths(findings, entity_id) ==
    LET own == SelectSeqBy(findings, {r \in Range(findings) : r.entity_id = entity_id})
    IN  [i \in 1..Len(own) |-> own[i].path]

TemplateInputPath == <<"steps", "apply", "variables", "name">>

\* C12: after the validation pass on the entity of the scenario, the only
\* finding for that entity is steps.apply.variables.name.
C12_OnlyTemplateInput ==
    [][op' = "validate" =>
         \A i \in 1..Len(graph.entities) :
             TemplateOnly(graph.entities[i]) =>
                 FindingPaths(missing_requirements', graph.entities[i].id)
                   = <<TemplateInputPath>>]_vars

\* C12, amended: the findings for that entity are steps.apply.variables.name,
\* preceded by values.workspace when the workspace is not set.
C12_WorkspaceAndTemplateInput ==
    [][op' = "validate" =>
         \A i \in 1..Len(graph.entities) :
             TemplateOnly(graph.entities[i]) =>
                 FindingPaths(missing_requirements', graph.entities[i].id)
                   = (IF Truthy(_get_nested_value(graph.entities[i].values, <<"workspace">>))
                      THEN <<>> ELSE << <<"values", "workspace">> >>)
                     \o <<TemplateInputPath>>]_vars

\* After the pass: the entity holds the two steps auto-fill created and no
\* workspace, and both findings are reported for it.
C12_Witness ==
    /\ op = "validate"
    /\ Len(AvailablePipelines("HarnessIACM")) = 1
    /\ \E i \in 1..Len(graph.entities) :
         /\ graph.entities[i].backend_type = "HarnessIACM"
         /\ StepField(DictGet(graph.entities[i].steps, "create"), "template") = <<"TempNamespace">>
         /\ graph.entities[i].inputs = <<>>
         /\ graph.entities[i].values = <<>>
         /\ DictHas(graph.entities[i].steps, "apply")
         /\ DictGet(graph.entities[i].steps, "apply") = CreatedStep(AvailablePipelines("HarnessIACM")[1])
         /\ DictHas(graph.entities[i].steps, "destroy")
         /\ DictGet(graph.entities[i].steps, "destroy") = CreatedStep(AvailablePipelines("HarnessIACM")[1])
         /\ FindingPaths(missing_requirements, graph.entities[i].id)
              = << <<"values", "workspace">>, TemplateInputPath >>

\* The required bindings of a Catalog entity whose environment id and
\* infrastructure id resolve that are not populated; empty for any other
\* entity.
UnsetBindings(entity) ==
    LET env_id   == _get_nested_value(entity.values, <<"environment", "identifier">>)
        infra_id == _get_nested_value(entity.values, <<"environment", "infra", "identifier">>)
    IN  IF /\ entity.backend_type = "Catalog"
           /\ Truthy(env_id) /\ Truthy(infra_id)
           /\ KnownInfrastructure(env_id, infra_id)
        THEN {b \in Range(get_infrastructure(env_id, infra_id).required_bindings) :
                 ~Truthy(_get_nested_value(entity.values, <<"environment", "infra", b>>))}
        ELSE {}

\* C13: after every validation each unset required binding of a Catalog
\* entity whose environment and infrastructure resolve has a finding at
\* values.environment.infra.<binding>, and no such entity has an unset
\* required binding while the machine is in YAML_RENDERED.
C13_RequiredBindings ==
    \A i \in 1..Len(graph.entities) :
        \A b \in UnsetBindings(graph.entities[i]) :
            /\ validated =>
                 \E n \in 1..Len(missing_requirements) :
                     /\ missing_requirements[n].entity_id = graph.entities[i].id
                     /\ missing_requirements[n].path = <<"values", "environment", "infra", b>>
            /\ state # "YAML_RENDERED"

UnknownReferenceReasons ==
    { <<"Pipeline does not exist">>, <<"Template does not exist">>,
      <<"Environment does not exist">> }

\* C14: validate_graph reports no finding for the sole reason that a
\* pipeline id, a template id or an environment id has no record in the
\* knowledge base as shipped.
C14_UnknownReferencesAccepted ==
    validated /\ pipelines = PIPELINES =>
        \A n \in 1..Len(missing_requirements) :
            missing_requirements[n].reason \notin UnknownReferenceReasons

\* The <id>, <field> pairs of the expressions dependencies.<id>.output.<field>
\* a variable value contains.
OutputReferences(value) ==
    { <<value[k + 2], value[k + 4]>> :
        k \in {n \in 1..(Len(value) - 5) :
                 /\ value[n] = "${{" /\ value[n + 1] = "dependencies"
                 /\ value[n + 3] = "output" /\ value[n + 5] = "}}"} }

DependenciesAllowed(entity, step_name) ==
    /\ HasContract(entity.backend_type)
    /\ "dependencies" \in Range(AllowedSources(get_backend_contract(entity.backend_type), step_name))

HasFinding(findings, entity_id, path, reason) ==
    \E n \in 1..Len(findings) :
        /\ findings[n].entity_id = entity_id
        /\ findings[n].path = path
        /\ findings[n].reason[1] = reason

OutputPath(reference) == <<"dependencies", reference[1], "output", reference[2]>>

Undeclared(g, entity, reference) == reference[1] \notin Range(entity.dependencies)

DeclaredAbsent(g, entity, reference) ==
    reference[1] \in Range(entity.dependencies) /\ reference[1] \notin EntityIds(g)

\* C15: after a validation, every reference dependencies.<id>.output.<field>
\* in a variable of a step that allows the dependencies scope has a finding
\* when <id> is not among the entity's declared dependencies, whether or not
\* an entity <id> exists, and a finding when <id> is declared and no entity
\* <id> is in the graph.
C15_DependencyReferences ==
    validated =>
        \A i \in 1..Len(graph.entities) :
            \A j \in 1..Len(graph.entities[i].steps) :
                \A n \in 1..Len(graph.entities[i].steps[j].v.variables.list) :
                    \A reference \in OutputReferences(graph.entities[i].steps[j].v.variables.list[n].value) :
                        DependenciesAllowed(graph.entities[i], graph.entities[i].steps[j].k) =>
                            /\ Undeclared(graph, graph.entities[i], reference) =>
                                 HasFinding(missing_requirements, graph.entities[i].id,
                                            OutputPath(reference), "Dependency is not declared")
                            /\ DeclaredAbsent(graph, graph.entities[i], reference) =>
                                 HasFinding(missing_requirements, graph.entities[i].id,
                                            OutputPath(reference),
                                            "Dependency entity does not exist in the graph")

\* A validated service whose apply step refers to an existing entity it does
\* not declare and to a declared entity that is not in the graph, with the
\* finding for each.
C15_Witness ==
    /\ validated
    /\ \E i \in 1..Len(graph.entities) :
         /\ DictHas(graph.entities[i].steps, "apply")
         /\ DependenciesAllowed(graph.entities[i], "apply")
         /\ LET variables == DictGet(graph.entities[i].steps, "apply").variables.list
            IN  \E n, m \in 1..Len(variables) :
                  \E first \in OutputReferences(variables[n].value) :
                    \E second \in OutputReferences(variables[m].value) :
                      /\ Undeclared(graph, graph.entities[i], first)
                      /\ first[1] \in EntityIds(graph)
                      /\ HasFinding(missing_requirements, graph.entities[i].id,
                                    OutputPath(first), "Dependency is not declared")
                      /\ DeclaredAbsent(graph, graph.entities[i], second)
                      /\ HasFinding(missing_requirements, graph.entities[i].id,
                                    OutputPath(second),
                                    "Dependency entity does not exist in the graph")

\* C16: after a validation, a reference dependencies.<id>.output.<field>
\* whose <id> is declared and in the graph has no finding, whatever <field>
\* is; stated for the knowledge base as shipped.
C16_OutputFieldNotEnforced ==
    validated /\ pipelines = PIPELINES =>
        \A i \in 1..Len(graph.entities) :
            \A j \in 1..Len(graph.entities[i].steps) :
                \A n \in 1..Len(graph.entities[i].steps[j].v.variables.list) :
                    \A reference \in OutputReferences(graph.entities[i].steps[j].v.variables.list[n].value) :
                        /\ DependenciesAllowed(graph.entities[i], graph.entities[i].steps[j].k)
                        /\ reference[1] \in Range(graph.entities[i].dependencies)
                        /\ reference[1] \in EntityIds(graph)
                        => ~\E f \in 1..Len(missing_requirements) :
                               /\ missing_requirements[f].entity_id = graph.entities[i].id
                               /\ missing_requirements[f].path = OutputPath(reference)

InputsFinding(findings, entity_id) ==
    \E n \in 1..Len(findings) :
        findings[n].entity_id = entity_id /\ findings[n].path = <<"inputs">>

\* C17: after every validation a HarnessIACM entity has a finding with path
\* inputs exactly when its inputs are not empty, and in YAML_RENDERED no
\* HarnessIACM entity has inputs.
C17_NoInfrastructureInputs ==
    \A i \in 1..Len(graph.entities) :
        graph.entities[i].backend_type = "HarnessIACM" =>
            /\ validated =>
                 (InputsFinding(missing_requirements, graph.entities[i].id)
                    <=> graph.entities[i].inputs # <<>>)
            /\ state = "YAML_RENDERED" => graph.entities[i].inputs = <<>>

\* A validated HarnessIACM entity with inputs and its finding at inputs,
\* which keeps the machine in NEEDS_INPUT.
C17_Witness ==
    /\ validated
    /\ state = "NEEDS_INPUT"
    /\ \E i \in 1..Len(graph.entities) :
         /\ graph.entities[i].backend_type = "HarnessIACM"
         /\ graph.entities[i].inputs # <<>>
         /\ InputsFinding(missing_requirements, graph.entities[i].id)

\* C18: a rendered entity holds an interface inputs block exactly when the
\* entity is a Catalog entity with inputs; the rendered form of a
\* HarnessIACM entity holds none, whatever its inputs are.
C18_InterfaceInputs ==
    op = "render" /\ yaml_output.rendered =>
        /\ Len(yaml_output.entities) = Len(graph.entities)
        /\ \A i \in 1..Len(graph.entities) :
             /\ yaml_output.entities[i].id = graph.entities[i].id
             /\ yaml_output.entities[i].hasInputs
                  <=> (graph.entities[i].backend_type = "Catalog" /\ graph.entities[i].inputs # <<>>)
             /\ ~yaml_output.entities[i].hasInputs => yaml_output.entities[i].inputs = <<>>
             /\ graph.entities[i].backend_type = "HarnessIACM" =>
                  ~yaml_output.entities[i].hasInputs

\* A rendered graph in which a HarnessIACM entity and a Catalog entity both
\* have inputs: the block is in the second and not in the first.
C18_Witness ==
    /\ op = "render"
    /\ yaml_output.rendered
    /\ \E i, j \in 1..Len(graph.entities) :
         /\ graph.entities[i].backend_type = "HarnessIACM"
         /\ graph.entities[i].inputs # <<>>
         /\ ~yaml_output.entities[i].hasInputs
         /\ graph.entities[j].backend_type = "Catalog"
         /\ graph.entities[j].inputs # <<>>
         /\ yaml_output.entities[j].hasInputs
         /\ Len(yaml_output.entities[j].inputs) = Len(graph.entities[j].inputs)

\* C19: after a validation, an entity whose backend type has no contract has
\* exactly one finding, at backend_type, whatever its values and steps are;
\* stated for the knowledge base as shipped.
C19_UnknownBackendType ==
    validated /\ pipelines = PIPELINES =>
        \A i \in 1..Len(graph.entities) :
            ~HasContract(graph.entities[i].backend_type) =>
                FindingPaths(missing_requirements, graph.entities[i].id) = << <<"backend_type">> >>

\* C20: every call of process_user_input returns a response and does not
\* raise.
C20_NeverRaises ==
    op # "none" => ~raised /\ response # NoResponse

\* Findings of a full pass over g: fill, resolve, validate.
Revalidated(g) == validate_graph(auto_wire_dependencies(_auto_fill_obvious_values(g)))

\* Updates a user can give against one finding: a value at the finding's
\* path under each classification, a step dict or an empty list at that path,
\* and a fresh step or an empty variable list for each lifecycle step.
Repairs(g, requirement) ==
    LET entity_id    == requirement.entity_id
        backend_type == EntityOf(g, entity_id).backend_type
    IN  { ScalarUpdate(entity_id, requirement.path, value, classification) :
              value \in {KnownValue(requirement.path, backend_type), <<"value">>},
              classification \in {"literal", "blueprint_input", "variable_reference"} }
        \cup { ListUpdate(entity_id, requirement.path, "literal") }
        \cup { DictUpdate(entity_id, <<"steps", s>>,
                          PipelineStep(KnownPipelineFor(backend_type, s)), "literal") :
                   s \in {"create", "apply", "destroy"} }
        \cup { ListUpdate(entity_id, <<"steps", s, "variables">>, "literal") :
                   s \in {"create", "apply", "destroy"} }

Recoverable(g, requirement) ==
    \E update \in Repairs(g, requirement) :
        LET result == _apply_update(g, update)
        IN  ~result.raised /\ ~Reported(requirement, Revalidated(result.graph))

\* C21 as stated: in NEEDS_INPUT, for every finding validate_graph reports on
\* the graph there is an update accepted by _apply_update after which a
\* validation pass no longer reports a finding for that entity and path.
C21_FindingsRecoverable ==
    state = "NEEDS_INPUT" =>
        LET findings == validate_graph(graph)
        IN  \A m \in 1..Len(findings) : Recoverable(graph, findings[m])

SanitizedNames == {"tempnamespace", "othertemplate", "my_service", "frontend", "service", "iacm", "entity"}

\* entity_id is f"{sanitized}_e{n}" for one of the sanitized base names.
Numbered(entity_id, n) == \E sanitized \in SanitizedNames : entity_id = sanitized \o "_e" \o ToString(n)

\* C22: after every call each entity id is <sanitized base>_e<n> with n at most
\* the counter, the ids are pairwise different and their numbers increase in
\* the order of creation; every entity created by the call has a number above
\* the counter the call started with, and every entity that existed before
\* keeps its place, id, backend type, dependencies and the keys of its values
\* and steps.
C22_UniqueEntityIds ==
    [][LET before == graph.entities
           after  == graph'.entities
       IN  /\ entity_counter' >= entity_counter
           /\ \A i \in 1..Len(after) : \E n \in 1..entity_counter' : Numbered(after[i].id, n)
           /\ \A i, j \in 1..Len(after) :
                 i < j => /\ after[i].id # after[j].id
                          /\ \A n, m \in 1..entity_counter' :
                                Numbered(after[i].id, n) /\ Numbered(after[j].id, m) => n < m
           /\ Len(after) - Len(before) = entity_counter' - entity_counter
           /\ \A j \in (Len(before) + 1)..Len(after) :
                 \E n \in (entity_counter + 1)..entity_counter' : Numbered(after[j].id, n)
           /\ \A i \in 1..Len(before) :
                 /\ after[i].id = before[i].id
                 /\ after[i].backend_type = before[i].backend_type
                 /\ after[i].dependencies = before[i].dependencies
                 /\ DictKeys(before[i].values) \subseteq DictKeys(after[i].values)
                 /\ DictKeys(before[i].steps) \subseteq DictKeys(after[i].steps)]_vars

\* C22: the call merged a discovered entity into the graph; it has the
\* sanitized base of an entity of the intent and the number of the counter.
C22_Witness ==
    /\ Len(trace) >= 2
    /\ trace[1] \in {"NEEDS_INPUT", "YAML_RENDERED"} /\ trace[2] = "GRAPH_CREATED"
    /\ Len(graph.entities) >= 2
    /\ \E i \in 1..(Len(graph.entities) - 1), sanitized \in SanitizedNames, n \in 1..entity_counter :
          /\ n < entity_counter
          /\ graph.entities[i].id = sanitized \o "_e" \o ToString(n)
          /\ graph.entities[Len(graph.entities)].id = sanitized \o "_e" \o ToString(entity_counter)

\* The path _apply_intent_bindings hands to _apply_update for a binding path.
BindingPath(path) ==
    IF \/ PathStartsWith(path, <<"config">>) \/ PathStartsWith(path, <<"values">>)
       \/ PathStartsWith(path, <<"steps">>) \/ PathStartsWith(path, <<"env", "config">>)
    THEN path
    ELSE <<"values">> \o path

\* binding names the k-th entity of the intent: by the id the intent gives
\* the entity, or by the id the engine generates for it.
Names(intent, binding, k) ==
    \/ "id" \in DOMAIN intent.entities[k] /\ intent.entities[k].id = binding.entity_id
    \/ _build_graph_from_intent(NewEngine, intent).graph.entities[k].id = binding.entity_id

\* C23 as stated: after the first call, every binding of the intent that names
\* an entity of the intent was handed to _apply_update for that entity, and
\* the first validation reported no finding for its path on that entity.
C23_BindingsApplied ==
    \A intent \in Intents :
        (op = "start" /\ ~raised /\ graph = _handle_start(NewEngine, intent).graph) =>
            \A b \in 1..Len(intent.bindings), k \in 1..Len(intent.entities) :
                (intent.bindings[b].path # <<>> /\ Names(intent, intent.bindings[b], k)) =>
                    /\ \E u \in Range(applied) :
                          /\ u.entity_id = graph.entities[k].id
                          /\ u.path = BindingPath(intent.bindings[b].path)
                          /\ u.value = intent.bindings[b].value
                    /\ ~Reported(MissingRequirement(graph.entities[k].id,
                                     BindingPath(intent.bindings[b].path), <<>>),
                                 missing_requirements)

\* C24 as stated: a call in YAML_RENDERED for which the detector returned new
\* entities adds each of them to the graph and ends either in NEEDS_INPUT or
\* in YAML_RENDERED with the document rendered from the extended graph.
C24_ExtensionRevalidated ==
    [][(state = "YAML_RENDERED" /\ op' = "extend") =>
          /\ Len(graph'.entities) > Len(graph.entities)
          /\ \/ state' = "NEEDS_INPUT"
             \/ state' = "YAML_RENDERED" /\ yaml_output' = render_yaml(graph')]_vars

\* C25 as stated: on every reachable graph for which validate_graph reports
\* no finding, render_yaml completes without raising.
C25_RenderTotal == validate_graph(graph) = <<>> => ~RenderRaises(graph)

\* C26 as stated: an answer in NEEDS_INPUT whose compound result holds no path
\* of the current batch is applied as the single-field answer to the pending
\* requirement.
C26_FallbackToSingle ==
    [][(/\ state = "NEEDS_INPUT"
        /\ op' \in {"compound", "single"}
        /\ \A i \in 1..Len(parsed') : parsed'[i] \notin Batch) =>
          LET current_req == missing_requirements[current_question_index + 1]
          IN  /\ op' = "single"
              /\ Len(applied') = 1
              /\ applied'[1].entity_id = current_req.entity_id
              /\ applied'[1].path = current_req.path]_vars

\* C27 as stated: a call that applied a single-field answer and merged no
\* entity asks a single-field question only about a requirement of the
\* current batch, and has re-run validation once the answers given reach the
\* size of the batch.
C27_BatchExhaustion ==
    [][(/\ state = "NEEDS_INPUT"
        /\ op' = "single" /\ ~raised'
        /\ current_entity_group # <<>>
        /\ graph'.entities = [i \in 1..Len(graph.entities) |-> graph'.entities[i]]) =>
          /\ response'.kind = "question" =>
                \E i \in 1..Len(current_entity_group) :
                    response'.requirements = <<current_entity_group[i]>>
          /\ current_question_index + 1 >= Len(current_entity_group) => validated']_vars

VariableUpdate(entity_id, step_name, input_name, value, classification) ==
    ScalarUpdate(entity_id, <<"steps", step_name, "variables", input_name>>, value, classification)

\* after holds exactly one record named input_name and every record of before
\* that has another name, with its value.
Upserted(before, after, input_name) ==
    /\ after.kind = "list"
    /\ Cardinality({v \in 1..Len(after.list) : after.list[v].name = input_name}) = 1
    /\ \A v \in 1..Len(before.list) :
          before.list[v].name # input_name => before.list[v] \in Range(after.list)
    /\ \A v \in 1..Len(after.list) :
          after.list[v].name # input_name => after.list[v] \in Range(before.list)

\* C28 as stated: an update to steps.<name>.variables.<input> of an entity of
\* either backend type returns and leaves the variables of step <name> a list
\* with exactly one record named <input> and the records of other names as
\* they were.
C28_UpsertByName ==
    \A i \in 1..Len(graph.entities), input \in AnsweredInputs :
        \A k \in 1..Len(graph.entities[i].steps) :
            LET before == graph.entities[i].steps[k]
                result == _apply_update(graph,
                              VariableUpdate(graph.entities[i].id, before.k, input,
                                             <<"value">>, "literal"))
            IN  /\ ~result.raised
                /\ Upserted(before.v.variables,
                            DictGet(result.graph.entities[i].steps, before.k).variables, input)

TargetPaths ==
    { <<"config", "region">>, <<"values", "workspace">>, <<"steps", "apply">>,
      <<"steps", "apply", "pipeline">>, <<"steps", "apply", "variables", "name">> }

\* The value entity holds at a target path is expression.
StoredAt(entity, path, expression) ==
    IF path[1] = "config"
    THEN DictHas(entity.inputs, Join(Tail(path))) /\ DictGet(entity.inputs, Join(Tail(path))) = expression
    ELSE IF path[1] = "values"
    THEN DictHas(entity.values, Tail(path)) /\ DictGet(entity.values, Tail(path)) = expression
    ELSE /\ DictHas(entity.steps, path[2])
         /\ LET step == DictGet(entity.steps, path[2])
            IN  IF Len(path) = 4 THEN HasVariable(step, path[4], expression)
                ELSE LET field == IF Len(path) = 3 THEN path[3] ELSE "pipeline"
                     IN  StepHasField(step, field) /\ StepField(step, field) = expression

\* The key is registered; a key that existed keeps its default.
Registered(before, after, key) ==
    /\ DictHas(after, key)
    /\ DictHas(before, key) => DictGet(after, key) = DictGet(before, key)

\* C29 as stated: a blueprint_input update with value v to a target path
\* config.*, values.*, steps.<name>, steps.<name>.<field> or
\* steps.<name>.variables.<input> registers v in global_inputs, keeping the
\* default of an existing key, and stores ${{env.config.v}} at the target.
C29_BlueprintInputStored ==
    \A i \in 1..Len(graph.entities), path \in TargetPaths, v \in AnsweredInputs :
        LET result == _apply_update(graph,
                          ScalarUpdate(graph.entities[i].id, path, <<v>>, "blueprint_input"))
        IN  /\ ~result.raised
            /\ Registered(graph.global_inputs, result.graph.global_inputs, v)
            /\ StoredAt(result.graph.entities[i], path, Expr(<<"env", "config", v>>))

\* C30 as stated: a variable_reference update with value p stores ${{p}} at
\* the target path and leaves global_inputs as it was.
C30_VariableReferenceStored ==
    \A i \in 1..Len(graph.entities), path \in TargetPaths :
        LET p      == <<"env", "config", "shared">>
            result == _apply_update(graph,
                          ScalarUpdate(graph.entities[i].id, path, p, "variable_reference"))
        IN  /\ ~result.raised
            /\ result.graph.global_inputs = graph.global_inputs
            /\ StoredAt(result.graph.entities[i], path, Expr(p))

SampleExpressions ==
    { <<"env", "config", "region">>, <<"entity", "config", "region">>,
      <<"dependencies", "tempnamespace_e1", "output", "name">>,
      <<"dependencies", "tempnamespace_e1", "name">>, <<"secrets", "token">> }

\* The source an expression draws from, "none" when it is not one of the three.
ScopeOf(expr) ==
    IF StartsWithScope(expr, <<"env", "config">>) THEN "env.config"
    ELSE IF StartsWithScope(expr, <<"entity", "config">>) THEN "entity.config"
    ELSE IF StartsWithScope(expr, <<"dependencies">>) THEN "dependencies"
    ELSE "none"

\* The expression may stand in a variable of the step: its scope is allowed
\* there and a dependencies path has the form dependencies.<id>.output.<field>.
Permitted(entity, step_name, expr) ==
    /\ ScopeOf(expr) \in Range(AllowedSources(get_backend_contract(entity.backend_type), step_name))
    /\ ScopeOf(expr) = "dependencies" => Len(expr) = 4 /\ expr[3] = "output"

\* The step step_name of entity i replaced by one whose variable holds expr.
WithExpression(g, i, step_name, expr) ==
    _apply_update(g, DictUpdate(g.entities[i].id, <<"steps", step_name>>,
                                Step(<< [k |-> "pipeline", v |-> <<"RunIaCM">>] >>,
                                     VariableList(<< [name |-> "wired", value |-> Expr(expr)] >>)),
                                "literal")).graph

\* C31 as stated: for every expression in a variable of a step that is not
\* permitted there, validate_graph reports a finding for the entity at the
\* step's variables or at the expression.
C31_ScopeLegality ==
    \A i \in 1..Len(graph.entities), step_name \in {"create", "apply"}, expr \in SampleExpressions :
        (HasContract(graph.entities[i].backend_type)
           /\ ~Permitted(graph.entities[i], step_name, expr)) =>
            \E path \in {<<"steps", step_name, "variables">>, expr} :
                Reported(MissingRequirement(graph.entities[i].id, path, <<>>),
                         validate_graph(WithExpression(graph, i, step_name, expr)))

\* The global input names the env.config expressions of a stored value refer to.
EnvConfigKeys(value) ==
    LET expressions == FindExpressions(value)
    IN  { Join(SubSeq(expressions[n], 3, Len(expressions[n]))) :
            n \in {m \in 1..Len(expressions) : StartsWithScope(expressions[m], <<"env", "config">>)} }

\* Every value the entity stores: its values, its inputs and its step variables.
StoredValues(entity) ==
    {entity.values[n].v : n \in 1..Len(entity.values)}
    \cup {entity.inputs[n].v : n \in 1..Len(entity.inputs)}
    \cup UNION { {entity.steps[j].v.variables.list[n].value :
                      n \in 1..Len(entity.steps[j].v.variables.list)} :
                 j \in 1..Len(entity.steps) }

\* C32 as stated: in YAML_RENDERED every expression ${{env.config.<name>}}
\* stored in a step variable, an entity value or an entity input names a key
\* of global_inputs.
C32_EnvConfigResolves ==
    state = "YAML_RENDERED" =>
        \A i \in 1..Len(graph.entities) :
            \A value \in StoredValues(graph.entities[i]) :
                EnvConfigKeys(value) \subseteq DictKeys(graph.global_inputs)

\* The rendered input keeps the rule for defaults: no default for an input
\* stored without one, and no expression as a default; an input stored as an
\* expression is typed string.
DefaultRule(rendered, stored) ==
    /\ stored = NoneV => ~rendered.hasDefault
    /\ IsExpressionString(stored) => rendered.type = "string" /\ ~rendered.hasDefault
    /\ rendered.hasDefault => ~IsExpressionString(rendered.default)

\* C33 as stated: in the document rendered from the graph every global input
\* and every interface input of an entity keeps the rule for defaults.
C33_RenderedDefaults ==
    (state = "YAML_RENDERED" /\ yaml_output = render_yaml(graph)) =>
        /\ \A n \in 1..Len(yaml_output.inputs) :
              DefaultRule(yaml_output.inputs[n], graph.global_inputs[n].v)
        /\ \A i \in 1..Len(yaml_output.entities) :
              \A n \in 1..Len(yaml_output.entities[i].inputs) :
                  DefaultRule(yaml_output.entities[i].inputs[n], graph.entities[i].inputs[n].v)

\* C34 as stated: the loop of main calls process_user_input at most
\* max_iterations times after the call for the initial intent.
C34_IterationCeiling == calls <= max_iterations + 1

\* C35 as stated: in every state NEEDS_INPUT there is a pending question:
\* missing_requirements is non-empty and current_question_index is below its
\* length.
C35_PendingQuestion ==
    state = "NEEDS_INPUT" =>
        /\ missing_requirements # <<>>
        /\ current_question_index < Len(missing_requirements)

LiteralAnswers == { <<"alpha">>, <<"beta">> }

\* The variable input_name of the step refers to an entry of global_inputs
\* whose default is value.
RefersToDefault(g, step, input_name, value) ==
    \E key \in DictKeys(g.global_inputs) :
        /\ HasVariable(step, input_name, Expr(<<"env", "config", key>>))
        /\ DictGet(g.global_inputs, key) = value

\* The graph after the entity was given the apply step of its contract.
WithApplyStep(g, entity_id) ==
    _apply_update(g, DictUpdate(entity_id, <<"steps", "apply">>,
                      Step(<<[k |-> "pipeline", v |-> <<"RunIaCM">>]>>, VariableList(<<>>)),
                      "literal")).graph

\* The graph after the literal was applied to steps.apply.variables.<input>.
WithLiteral(g, entity_id, input_name, value) ==
    _apply_update(g, VariableUpdate(entity_id, "apply", input_name, value, "literal")).graph

\* C36 as stated: after a literal v is applied to
\* steps.apply.variables.<input> of a HarnessIACM entity that has the apply
\* step, the variable <input> of that step refers to an entry of global_inputs
\* whose default is v, also when another HarnessIACM entity was given another
\* literal for the same input before.
C36_LiteralPreserved ==
    /\ \A i \in 1..Len(graph.entities), input \in AnsweredInputs, v \in LiteralAnswers :
           LET entity == graph.entities[i]
           IN  (entity.backend_type = "HarnessIACM" /\ DictHas(entity.steps, "apply")) =>
                   RefersToDefault(WithLiteral(graph, entity.id, input, v),
                       DictGet(WithLiteral(graph, entity.id, input, v).entities[i].steps, "apply"),
                       input, v)
    /\ \A i, j \in 1..Len(graph.entities), input \in AnsweredInputs :
           (/\ i # j
            /\ graph.entities[i].backend_type = "HarnessIACM"
            /\ graph.entities[j].backend_type = "HarnessIACM") =>
               RefersToDefault(
                   WithLiteral(WithLiteral(WithApplyStep(WithApplyStep(graph,
                       graph.entities[j].id), graph.entities[i].id),
                       graph.entities[j].id, input, <<"beta">>),
                       graph.entities[i].id, input, <<"alpha">>),
                   DictGet(WithLiteral(WithLiteral(WithApplyStep(WithApplyStep(graph,
                       graph.entities[j].id), graph.entities[i].id),
                       graph.entities[j].id, input, <<"beta">>),
                       graph.entities[i].id, input, <<"alpha">>).entities[i].steps, "apply"),
                   input, <<"alpha">>)

\* C37 as stated: after the graph is built from an intent and after every
\* entity-discovery merge, every id in every entity's dependencies list is the
\* id of an entity of the graph.
C37_DependenciesResolved ==
    \A i \in 1..Len(graph.entities) :
        \A d \in 1..Len(graph.entities[i].dependencies) :
            \E j \in 1..Len(graph.entities) :
                graph.entities[j].id = graph.entities[i].dependencies[d]

C39_RestingStates ==
    /\ (calls > 0 /\ ~raised) => state \in {"NEEDS_INPUT", "YAML_RENDERED"}
    /\ calls > 0 => state # "START"

====
